---------------------------- MODULE Spec2Model ----------------------------
(***************************************************************************)
(* Content Generation Studio: the rate limiter, the quota accounting, the  *)
(* context store, the embedding store and the conversation orchestrator,   *)
(* modelled from src/app.                                                  *)
(***************************************************************************)
EXTENDS Integers, Sequences, FiniteSets, TLC

(***************************************************************************)
(* Bounds of the model.                                                    *)
(***************************************************************************)
\* Clock ticks in one minute bucket, and minute buckets in one hour bucket
\* (the code's 60 s and 3600 s windows, scaled).
TicksPerMinute == 2
MinutesPerHour == 2
\* The clock stops here.
MaxTime == 5
\* per_minute and per_hour of check_user_rate_limits (60/1000 and 30/500 at
\* the call sites, scaled).
PerMinute == 2
PerHour == 3
\* Calls of check_user_rate_limits one user makes within one minute bucket.
MaxCallsPerBucket == 4
\* Concurrent requests.
NumProcs == 3

\* Users of the service.
NumUsers == 2
\* Calls made on the context store in one run.
MaxMemOps == 3
\* Deletions among concurrent upserts.
MaxDeletes == 1
\* Calls of chat_with_memory, and direct calls of
\* generate_and_store_embedding, in one run.
MaxChats == 2
MaxEmbeds == 1
\* Calls of chat_with_memory in a run that fills the history window.
MaxHistoryChats == 7
\* HTTP requests in one run, and the users' monthly_quota in credits.
NumRequests == 2
MonthlyQuota == 4
\* Floating point: the bits of a mantissa, and the binary places kept below
\* the point (a float is held as an integer count of 2^-FractionBits).
MantissaBits == 4
FractionBits == 8
\* Vectors: their dimension and the largest component, in absolute value.
Dimension == 2
MaxComponent == 2
\* The largest limit of a search.
MaxLimit == 2
\* The largest total_tokens of a completion.
MaxTokens == 300

None == "none"

VARIABLES
    now,        \* the wall clock, in ticks
    redis,      \* the counter backend: key -> [count, expireAt]
    rlLast,     \* the last check_user_rate_limits call: its inputs and result
    rlBucket,   \* the calls made in the minute bucket of the last call
    rlPc,       \* concurrent check_rate_limit: each request's position
    rlCur,      \* concurrent check_rate_limit: the value each request read
    rlAllowed,  \* concurrent check_rate_limit: the requests that were allowed
    contexts,   \* the user_contexts table, rows in insertion order
    memLast,    \* the last call on the context store: its inputs and result
    memOps,     \* calls made on the context store
    upPc,       \* concurrent upserts: each request's position
    upReq,      \* concurrent upserts: each request's arguments and the row it read
    conversations,  \* the conversations table
    messages,   \* the messages table, rows in creation order
    embeddings, \* the message_embeddings table
    nextId,     \* the next fresh identifier (uuid4)
    chatLast,   \* the chat_with_memory call that was the last operation, and its result
    chatOps,    \* chat_with_memory calls made
    embLast,    \* the last direct generate_and_store_embedding call
    embOps,     \* direct generate_and_store_embedding calls made
    usedQuota,  \* users.used_quota, per user
    usageLogs,  \* the usage_logs table, rows in commit order
    apiPc,      \* HTTP requests: where each request is in its handler
    apiReq,     \* HTTP requests: each request's arguments, locals and outcome
    cosLast,    \* the cosine_similarity call made: its arguments and result
    promptLast, \* the build_personalized_prompt call made: its arguments and result
    searchLast, \* the last search_similar_messages call: its arguments and result
    extLast,    \* the last extraction or explicit context request, and its result
    extOps,     \* extractions and explicit context requests made
    genLast     \* the generate_content call made: its arguments, the response, the result

rlSeqVars == <<rlLast, rlBucket>>
rlConcVars == <<rlPc, rlCur, rlAllowed>>
rlVars == <<now, redis, rlSeqVars, rlConcVars>>

memSeqVars == <<memLast, memOps>>
memConcVars == <<upPc, upReq>>
memVars == <<contexts, memSeqVars, memConcVars>>

chatSeqVars == <<chatLast, chatOps, embLast, embOps>>
chatVars == <<conversations, messages, embeddings, nextId, chatSeqVars>>

apiVars == <<usedQuota, usageLogs, apiPc, apiReq>>

pureVars == <<cosLast, promptLast>>
searchVars == <<searchLast>>
extVars == <<extLast, extOps>>
genVars == <<genLast>>

vars == <<rlVars, memVars, chatVars, apiVars, pureVars, searchVars, extVars, genVars>>

\* What an action of one component leaves alone.
notRL == <<memVars, chatVars, apiVars, pureVars, searchVars, extVars, genVars>>
notMem == <<rlVars, chatVars, apiVars, pureVars, searchVars, extVars, genVars>>
notChat == <<rlVars, memSeqVars, memConcVars, apiVars, pureVars, searchVars, extVars, genVars>>
notApi == <<now, rlSeqVars, rlConcVars, memSeqVars, memConcVars, chatSeqVars, pureVars, searchVars, extVars, genVars>>
notSearch == <<rlVars, memVars, chatVars, apiVars, pureVars, extVars, genVars>>
notExt == <<rlVars, memSeqVars, memConcVars, chatVars, apiVars, pureVars, searchVars, genVars>>
notCos == <<rlVars, memVars, chatVars, apiVars, promptLast, searchVars, extVars, genVars>>
notPrompt == <<rlVars, memVars, chatVars, apiVars, cosLast, searchVars, extVars, genVars>>
notGen == <<rlVars, memVars, chatVars, apiVars, pureVars, searchVars, extVars>>

----------------------------------------------------------------------------
(***************************************************************************)
(* The rate limiter, src/app/utils/rate_limiter.py.                        *)
(***************************************************************************)
Procs == 1 .. NumProcs

UserIds == 1 .. NumUsers

TicksPerHour == TicksPerMinute * MinutesPerHour

\* window_seconds of the two windows.
WindowLength(window) == IF window = "minute" THEN TicksPerMinute ELSE TicksPerHour

\* get_rate_limit_key: the key names the user, the endpoint, the window and
\* the bucket (the formatted time, cut at the minute or at the hour).
get_rate_limit_key(user_id, endpoint, window, t) ==
    <<user_id, endpoint, window, t \div WindowLength(window)>>

\* A key with no expiry (one that INCR created).
NoExpiry == -1

\* What GET answers for a key the backend does not hold (Python's None).
Absent == -1

\* The keys the backend still holds at time t.
LiveKeys(r, t) ==
    {k \in DOMAIN r : r[k].expireAt = NoExpiry \/ t < r[k].expireAt}

Restrict(f, S) == [x \in S |-> f[x]]

\* redis_client.get(key): None for a key that is absent or has expired.
RedisGet(r, key, t) ==
    IF key \in LiveKeys(r, t) THEN r[key].count ELSE Absent

\* redis_client.setex(key, window_seconds, 1).
RedisSetex(r, key, seconds, value, t) ==
    [k \in LiveKeys(r, t) \cup {key} |->
        IF k = key THEN [count |-> value, expireAt |-> t + seconds] ELSE r[k]]

\* redis_client.incr(key): an absent key is created at 1, with no expiry.
RedisIncr(r, key, t) ==
    [k \in LiveKeys(r, t) \cup {key} |->
        IF k # key THEN r[k]
        ELSE IF key \in LiveKeys(r, t)
             THEN [r[k] EXCEPT !.count = @ + 1]
             ELSE [count |-> 1, expireAt |-> NoExpiry]]

\* The comparison against the ceiling (mutant: off by one).
AtCeilingStrict(current_count, limit) == current_count > limit

AtCeiling(current_count, limit) == current_count >= limit

\* except redis.RedisError: allow the request (mutant: fail closed).
OnRedisErrorClosed(limit) == [allowed |-> FALSE, remaining |-> 0]

OnRedisError(limit) == [allowed |-> TRUE, remaining |-> limit]

\* The operations of the backend that can raise redis.RedisError in one
\* check_rate_limit call: the read, or the write that follows it.
Failures == {"none", "get", "write"}

\* check_rate_limit(key, limit, window_seconds) at time t, where the backend
\* fails as `fail` says.  Returns the result and the backend's new state.
check_rate_limit(r, key, limit, window_seconds, t, fail) ==
    LET err == OnRedisError(limit)
        current == RedisGet(r, key, t)
    IN  IF fail = "get"
        THEN [allowed |-> err.allowed, remaining |-> err.remaining,
              failed |-> TRUE, seen |-> Absent, redis |-> r]
        ELSE IF current = Absent
        THEN IF fail = "write"
             THEN [allowed |-> err.allowed, remaining |-> err.remaining,
                   failed |-> TRUE, seen |-> Absent, redis |-> r]
             ELSE [allowed |-> TRUE, remaining |-> limit - 1,
                   failed |-> FALSE, seen |-> Absent,
                   redis |-> RedisSetex(r, key, window_seconds, 1, t)]
        ELSE IF AtCeiling(current, limit)
        THEN [allowed |-> FALSE, remaining |-> 0,
              failed |-> FALSE, seen |-> current, redis |-> r]
        ELSE IF fail = "write"
        THEN [allowed |-> err.allowed, remaining |-> err.remaining,
              failed |-> TRUE, seen |-> current, redis |-> r]
        ELSE [allowed |-> TRUE, remaining |-> limit - current - 1,
              failed |-> FALSE, seen |-> current,
              redis |-> RedisIncr(r, key, t)]

\* The reason of a rejection: the message names the limit and the window.
NoReason == [text |-> "", limit |-> 0, window |-> ""]

Reason(limit, window) ==
    [text |-> "Rate limit exceeded", limit |-> limit, window |-> window]

\* check_user_rate_limits(user_id, endpoint, per_minute, per_hour): the
\* minute check, then (only if it allowed) the hour check.
check_user_rate_limits(r, user_id, endpoint, per_minute, per_hour, t, failM, failH) ==
    LET minute_key == get_rate_limit_key(user_id, endpoint, "minute", t)
        hour_key == get_rate_limit_key(user_id, endpoint, "hour", t)
        m == check_rate_limit(r, minute_key, per_minute, WindowLength("minute"), t, failM)
        h == check_rate_limit(m.redis, hour_key, per_hour, WindowLength("hour"), t, failH)
    IN  IF ~m.allowed
        THEN [allowed |-> FALSE, reason |-> Reason(per_minute, "minute"),
              mFailed |-> m.failed, hourRan |-> FALSE, hFailed |-> FALSE,
              redis |-> m.redis]
        ELSE IF ~h.allowed
        THEN [allowed |-> FALSE, reason |-> Reason(per_hour, "hour"),
              mFailed |-> m.failed, hourRan |-> TRUE, hFailed |-> h.failed,
              redis |-> h.redis]
        ELSE [allowed |-> TRUE, reason |-> NoReason,
              mFailed |-> m.failed, hourRan |-> TRUE, hFailed |-> h.failed,
              redis |-> h.redis]

\* The user whose calls the rate-limiter specifications follow (the keys of
\* two users never coincide), and the endpoint.
RLUser == 1

RLEndpoint == "messages"

\* No call made yet.
NoCall == [made |-> FALSE, allowed |-> TRUE, reason |-> NoReason,
           mFailed |-> FALSE, hourRan |-> FALSE, hFailed |-> FALSE,
           minuteBefore |-> Absent, minuteAfter |-> Absent,
           hourBefore |-> Absent, hourAfter |-> Absent]

\* The calls of one minute bucket: how many, how many allowed, whether every
\* one of them found the backend working and the hour count under its
\* ceiling, and whether the bucket before it ended full.
NoBucket == [bucket |-> -1, calls |-> 0, allowed |-> 0, clean |-> TRUE,
             follows |-> FALSE]

InitRL ==
    /\ now = 0
    /\ redis = <<>>
    /\ rlLast = NoCall
    /\ rlBucket = NoBucket
    /\ rlPc = [p \in Procs |-> "idle"]
    /\ rlCur = [p \in Procs |-> [key |-> <<>>, current |-> Absent]]
    /\ rlAllowed = {}

\* The clock advances; the backend drops the keys that expire.
Tick ==
    /\ now < MaxTime
    /\ now' = now + 1
    /\ redis' = Restrict(redis, LiveKeys(redis, now + 1))
    /\ UNCHANGED <<rlSeqVars, rlConcVars, notRL>>

\* One whole call of check_user_rate_limits; the backend fails in the minute
\* check as failM says and in the hour check as failH says.
CheckUserRateLimits(failM, failH) ==
    LET mk == get_rate_limit_key(RLUser, RLEndpoint, "minute", now)
        hk == get_rate_limit_key(RLUser, RLEndpoint, "hour", now)
        c == check_user_rate_limits(redis, RLUser, RLEndpoint, PerMinute, PerHour,
                                    now, failM, failH)
        old == IF rlBucket.bucket = mk[4] THEN rlBucket
               ELSE [NoBucket EXCEPT
                        !.bucket = mk[4],
                        !.follows = /\ rlBucket.bucket = mk[4] - 1
                                    /\ rlBucket.clean
                                    /\ rlBucket.calls > PerMinute]
        hourFull == RedisGet(redis, hk, now) >= PerHour
    IN  /\ old.calls < MaxCallsPerBucket
        /\ redis' = c.redis
        /\ rlLast' = [made |-> TRUE, allowed |-> c.allowed, reason |-> c.reason,
                      mFailed |-> c.mFailed, hourRan |-> c.hourRan,
                      hFailed |-> c.hFailed,
                      minuteBefore |-> RedisGet(redis, mk, now),
                      minuteAfter |-> RedisGet(c.redis, mk, now),
                      hourBefore |-> RedisGet(redis, hk, now),
                      hourAfter |-> RedisGet(c.redis, hk, now)]
        /\ rlBucket' = [old EXCEPT
                !.calls = @ + 1,
                !.allowed = @ + (IF c.allowed THEN 1 ELSE 0),
                !.clean = @ /\ ~c.mFailed /\ ~c.hFailed /\ ~hourFull]
        /\ UNCHANGED <<now, rlConcVars, notRL>>

NextRL ==
    \/ Tick
    \/ \E failM \in Failures, failH \in Failures : CheckUserRateLimits(failM, failH)

\* The same calls with the backend working throughout.
CheckUserRateLimitsUp == CheckUserRateLimits("none", "none")

NextRLUp ==
    \/ Tick
    \/ CheckUserRateLimitsUp

(***************************************************************************)
(* Concurrent requests, each one call of check_rate_limit on the minute    *)
(* key of the same user and endpoint: the read and the write that follows  *)
(* it are two operations on the backend, and the requests interleave       *)
(* between them.  The backend works throughout.                            *)
(***************************************************************************)
\* get_rate_limit_key, then redis_client.get(key) and the branch on it.
RLGet(p) ==
    LET key == get_rate_limit_key(RLUser, RLEndpoint, "minute", now)
        current == RedisGet(redis, key, now)
    IN  /\ rlPc[p] = "idle"
        /\ rlCur' = [rlCur EXCEPT ![p] = [key |-> key, current |-> current]]
        /\ rlPc' = [rlPc EXCEPT ![p] =
                IF current = Absent THEN "setex"
                ELSE IF AtCeiling(current, PerMinute) THEN "rejected"
                ELSE "incr"]
        /\ UNCHANGED <<now, redis, rlSeqVars, rlAllowed, notRL>>

\* redis_client.setex(key, window_seconds, 1); return True.
RLSetex(p) ==
    /\ rlPc[p] = "setex"
    /\ redis' = RedisSetex(redis, rlCur[p].key, WindowLength("minute"), 1, now)
    /\ rlPc' = [rlPc EXCEPT ![p] = "allowed"]
    /\ rlAllowed' = rlAllowed \cup {p}
    /\ UNCHANGED <<now, rlSeqVars, rlCur, notRL>>

\* redis_client.incr(key); return True.
RLIncr(p) ==
    /\ rlPc[p] = "incr"
    /\ redis' = RedisIncr(redis, rlCur[p].key, now)
    /\ rlPc' = [rlPc EXCEPT ![p] = "allowed"]
    /\ rlAllowed' = rlAllowed \cup {p}
    /\ UNCHANGED <<now, rlSeqVars, rlCur, notRL>>

NextRLConc ==
    \/ Tick
    \/ \E p \in Procs : RLGet(p)
    \/ \E p \in Procs : RLSetex(p)
    \/ \E p \in Procs : RLIncr(p)

----------------------------------------------------------------------------
(***************************************************************************)
(* Claims about the rate limiter.                                          *)
(***************************************************************************)

\* C1: in a run of check_user_rate_limits calls that fall in one minute
\* bucket, with the backend working and the hour count under its ceiling,
\* a call is allowed exactly when it is among the first per_minute calls of
\* the bucket: the call after them is rejected, and the first call of the
\* following bucket is allowed again.
C1_FirstPerMinuteAllowed ==
    (rlLast.made /\ rlBucket.clean) =>
        /\ rlLast.allowed <=> (rlBucket.calls <= PerMinute)
        /\ rlBucket.allowed = (IF rlBucket.calls <= PerMinute
                               THEN rlBucket.calls ELSE PerMinute)
        /\ (rlBucket.follows /\ rlBucket.calls = 1) => rlLast.allowed

\* C1 witness: a bucket took per_minute calls and rejected the next one, and
\* the first call of the bucket after it was allowed.
C1_Witness ==
    /\ rlLast.made /\ rlBucket.clean /\ rlBucket.follows
    /\ rlBucket.calls = 1 /\ rlLast.allowed

\* C1 witness of the rejection itself.
C1_RejectWitness ==
    /\ rlLast.made /\ rlBucket.clean /\ ~rlLast.allowed
    /\ rlBucket.calls = PerMinute + 1

\* The keys the concurrent requests used.
KeysUsed == {rlCur[p].key : p \in {q \in Procs : rlPc[q] # "idle"}}

AllowedOn(key) == {p \in rlAllowed : rlCur[p].key = key}

\* C2: under every interleaving of concurrent check_rate_limit calls on one
\* key no update is lost: the stored counter is the number of calls that
\* were allowed, and no more calls than the limit are allowed.
C2_NoLostUpdate ==
    \A key \in KeysUsed :
        /\ Cardinality(AllowedOn(key)) <= PerMinute
        /\ key \in LiveKeys(redis, now) =>
                redis[key].count = Cardinality(AllowedOn(key))

\* C3: a rejected check_user_rate_limits call leaves the minute counter and
\* the hour counter as they were, and its reason names the window whose
\* ceiling was met.
C3_RejectionLeavesCounters ==
    (rlLast.made /\ ~rlLast.allowed) =>
        /\ rlLast.minuteAfter = rlLast.minuteBefore
        /\ rlLast.hourAfter = rlLast.hourBefore
        /\ \/ rlLast.reason = Reason(PerMinute, "minute")
                /\ rlLast.minuteBefore >= PerMinute
           \/ rlLast.reason = Reason(PerHour, "hour")
                /\ rlLast.hourBefore >= PerHour

\* C4 as stated: a call during which the backend failed on any operation
\* is allowed, whatever the counts are.
C4_AnyFailureAllows ==
    (rlLast.made /\ (rlLast.mFailed \/ rlLast.hFailed)) => rlLast.allowed

\* C4 as amended: a check_rate_limit call in which the backend fails
\* returns allowed (the minute check lets the call through to the hour
\* check; the hour check allows the call), whatever the counts are; a call
\* whose two checks both fail is allowed; a failure in the minute check
\* alone leaves the hour ceiling in force.
C4_FailOpen ==
    rlLast.made =>
        /\ rlLast.mFailed => rlLast.hourRan
        /\ rlLast.hFailed => rlLast.allowed
        /\ (rlLast.mFailed /\ ~rlLast.allowed) =>
                (rlLast.reason = Reason(PerHour, "hour") /\ rlLast.hourBefore >= PerHour)

\* C4 witness: both counters at their ceilings, the backend failed in both
\* checks and the call was allowed.
C4_Witness ==
    /\ rlLast.made /\ rlLast.mFailed /\ rlLast.hFailed /\ rlLast.allowed
    /\ rlLast.minuteBefore >= PerMinute /\ rlLast.hourBefore >= PerHour

\* C27: in every reachable state every rate-limit counter key the backend
\* holds has an expiry, no further away than the length of its window, also
\* when a key expires between the read and the increment of one
\* check_rate_limit call.
C27_CountersExpire ==
    \A k \in LiveKeys(redis, now) :
        /\ redis[k].expireAt # NoExpiry
        /\ redis[k].expireAt - now <= WindowLength(k[3])

----------------------------------------------------------------------------
(***************************************************************************)
(* The context store, src/app/services/memory_service.py.                  *)
(***************************************************************************)
CtxKeys == {"writing_style", "industry"}

CtxValues == {"casual", "formal"}

\* learned_from_conversation_id: None, or the id of a conversation.
NoConv == 0

ConvIds == {1}

\* confidence_score, in tenths: 1.0 for the explicit endpoints, 0.7 for an
\* extracted fact.
ConfExplicit == 10

ConfInferred == 7

\* The rows of (user_id, key), by their place in the table.
RowsOf(ctxs, user_id, key) ==
    {i \in 1 .. Len(ctxs) : ctxs[i].user_id = user_id /\ ctxs[i].key = key}

Min(S) == CHOOSE x \in S : \A y \in S : x <= y

\* get_context_by_key: .first() of the rows of (user_id, key); 0 for None.
get_context_by_key(ctxs, user_id, key) ==
    IF RowsOf(ctxs, user_id, key) = {} THEN 0 ELSE Min(RowsOf(ctxs, user_id, key))

\* Mutant: an overwritten fact starts its usage anew.
OverwriteRowResetting(ctxs, existing, value, conversation_id, confidence_score) ==
    [ctxs EXCEPT ![existing] =
        [@ EXCEPT !.value = value,
                  !.confidence_score = confidence_score,
                  !.learned_from_conversation_id = conversation_id,
                  !.usage_count = 0, !.last_used = 0]]

\* The branch `if existing:` overwrites the row that was read.
OverwriteRow(ctxs, existing, value, conversation_id, confidence_score) ==
    [ctxs EXCEPT ![existing] =
        [@ EXCEPT !.value = value,
                  !.confidence_score = confidence_score,
                  !.learned_from_conversation_id = conversation_id]]

\* The branch `else:` adds a row; usage_count takes the column's default
\* and last_used is NULL (0 here).
InsertRow(ctxs, user_id, key, value, conversation_id, confidence_score) ==
    Append(ctxs, [user_id |-> user_id, key |-> key, value |-> value,
                  learned_from_conversation_id |-> conversation_id,
                  confidence_score |-> confidence_score,
                  usage_count |-> 0, last_used |-> 0])

\* Mutant: the confidence of an existing fact is averaged with the new one.
WriteContextAveraging(ctxs, existing, user_id, key, value, conversation_id, confidence_score) ==
    IF existing # 0
    THEN OverwriteRow(ctxs, existing, value, conversation_id,
                      (ctxs[existing].confidence_score + confidence_score) \div 2)
    ELSE InsertRow(ctxs, user_id, key, value, conversation_id, confidence_score)

\* update_or_create_context after its read: the write, given the row read.
WriteContext(ctxs, existing, user_id, key, value, conversation_id, confidence_score) ==
    IF existing # 0
    THEN OverwriteRow(ctxs, existing, value, conversation_id, confidence_score)
    ELSE InsertRow(ctxs, user_id, key, value, conversation_id, confidence_score)

\* update_or_create_context(user_id, key, value, conversation_id, confidence_score).
update_or_create_context(ctxs, user_id, key, value, conversation_id, confidence_score) ==
    WriteContext(ctxs, get_context_by_key(ctxs, user_id, key),
                 user_id, key, value, conversation_id, confidence_score)

RemoveAt(seq, i) == [j \in 1 .. (Len(seq) - 1) |-> IF j < i THEN seq[j] ELSE seq[j + 1]]

\* delete_context(user_id, key): the result and the table.
delete_context(ctxs, user_id, key) ==
    LET context == get_context_by_key(ctxs, user_id, key)
    IN  IF context # 0
        THEN [result |-> TRUE, contexts |-> RemoveAt(ctxs, context)]
        ELSE [result |-> FALSE, contexts |-> ctxs]

\* The provenance and the confidence a caller passes: the explicit
\* endpoints pass no conversation and 1.0, extraction passes the
\* conversation and 0.7.
Provenances == {[conversation_id |-> NoConv, confidence_score |-> ConfExplicit]}
               \cup {[conversation_id |-> c, confidence_score |-> ConfInferred] : c \in ConvIds}

NoMemCall == [op |-> "", user_id |-> 0, key |-> "", value |-> "",
              conversation_id |-> NoConv, confidence_score |-> 0,
              priorRows |-> 0, priorValue |-> "", result |-> FALSE]

InitMem ==
    /\ contexts = <<>>
    /\ memLast = NoMemCall
    /\ memOps = 0
    /\ upPc = [p \in Procs |-> "idle"]
    /\ upReq = [p \in Procs |-> [user_id |-> 0, key |-> "", value |-> "",
                                 conversation_id |-> NoConv, confidence_score |-> 0,
                                 existing |-> 0]]

\* What the table held for (user_id, key) before a call.
PriorValue(ctxs, user_id, key) ==
    IF get_context_by_key(ctxs, user_id, key) = 0 THEN ""
    ELSE ctxs[get_context_by_key(ctxs, user_id, key)].value

\* One whole call of update_or_create_context.
UpdateOrCreateContext(u, k, v, prov) ==
    /\ memOps < MaxMemOps
    /\ memOps' = memOps + 1
    /\ contexts' = update_or_create_context(contexts, u, k, v,
                        prov.conversation_id, prov.confidence_score)
    /\ memLast' = [op |-> "upsert", user_id |-> u, key |-> k, value |-> v,
                   conversation_id |-> prov.conversation_id,
                   confidence_score |-> prov.confidence_score,
                   priorRows |-> Cardinality(RowsOf(contexts, u, k)),
                   priorValue |-> PriorValue(contexts, u, k),
                   result |-> TRUE]
    /\ UNCHANGED <<memConcVars, notMem>>

\* One whole call of delete_context.
DeleteContext(u, k) ==
    /\ memOps < MaxMemOps
    /\ memOps' = memOps + 1
    /\ contexts' = delete_context(contexts, u, k).contexts
    /\ memLast' = [NoMemCall EXCEPT
                        !.op = "delete", !.user_id = u, !.key = k,
                        !.priorRows = Cardinality(RowsOf(contexts, u, k)),
                        !.priorValue = PriorValue(contexts, u, k),
                        !.result = delete_context(contexts, u, k).result]
    /\ UNCHANGED <<memConcVars, notMem>>

NextMem ==
    \/ \E u \in UserIds, k \in CtxKeys, v \in CtxValues, prov \in Provenances :
            UpdateOrCreateContext(u, k, v, prov)
    \/ \E u \in UserIds, k \in CtxKeys : DeleteContext(u, k)

\* increment_context_usage(context_id): the row of that id, when there is
\* one, counts one more use and is stamped.
increment_context_usage(ctxs, context_id, stamp) ==
    IF context_id \in 1 .. Len(ctxs)
    THEN [ctxs EXCEPT ![context_id] =
            [@ EXCEPT !.usage_count = @ + 1, !.last_used = stamp]]
    ELSE ctxs

\* One whole call of increment_context_usage.
IncrementContextUsage(context_id) ==
    /\ memOps < MaxMemOps
    /\ memOps' = memOps + 1
    /\ contexts' = increment_context_usage(contexts, context_id, memOps + 1)
    /\ memLast' = [NoMemCall EXCEPT !.op = "use"]
    /\ UNCHANGED <<memConcVars, notMem>>

\* Sequential calls on the context store, uses of a fact among them.
NextMemUse ==
    \/ NextMem
    \/ \E context_id \in 1 .. (Len(contexts) + 1) : IncrementContextUsage(context_id)

(***************************************************************************)
(* Concurrent upserts: update_or_create_context reads the row             *)
(* (get_context_by_key) and then writes (commit), two operations on the    *)
(* database; requests interleave between them.  The table has no unique    *)
(* constraint on (user_id, key).                                           *)
(***************************************************************************)
\* existing = self.get_context_by_key(user_id, key)
UpsertRead(p, u, k, v, prov) ==
    /\ upPc[p] = "idle"
    /\ upPc' = [upPc EXCEPT ![p] = "write"]
    /\ upReq' = [upReq EXCEPT ![p] =
            [user_id |-> u, key |-> k, value |-> v,
             conversation_id |-> prov.conversation_id,
             confidence_score |-> prov.confidence_score,
             existing |-> get_context_by_key(contexts, u, k)]]
    /\ UNCHANGED <<contexts, memSeqVars, notMem>>

\* The branch on `existing`, and self.db.commit().
UpsertWrite(p) ==
    /\ upPc[p] = "write"
    /\ upPc' = [upPc EXCEPT ![p] = "done"]
    /\ contexts' = WriteContext(contexts, upReq[p].existing, upReq[p].user_id,
                        upReq[p].key, upReq[p].value, upReq[p].conversation_id,
                        upReq[p].confidence_score)
    /\ UNCHANGED <<upReq, memSeqVars, notMem>>

NextMemConc ==
    \/ \E p \in Procs, u \in UserIds, k \in CtxKeys, v \in CtxValues, prov \in Provenances :
            UpsertRead(p, u, k, v, prov)
    \/ \E p \in Procs : UpsertWrite(p)

\* Deletions among concurrent upserts.
DeleteAmongUpserts(u, k) ==
    /\ memOps < MaxDeletes
    /\ DeleteContext(u, k)

NextMemDel ==
    \/ NextMemConc
    \/ \E u \in UserIds, k \in CtxKeys : DeleteAmongUpserts(u, k)

----------------------------------------------------------------------------
(***************************************************************************)
(* Claims about the context store.                                         *)
(***************************************************************************)

\* C7: after update_or_create_context is called on a key that already holds
\* a fact with another value, in a run of calls made one after the other,
\* exactly one fact is stored for (user, key), and it holds the value and
\* the confidence of the later call (last write wins, no averaging).
C7_LastWriteWins ==
    (memLast.op = "upsert" /\ memLast.priorRows = 1) =>
        /\ Cardinality(RowsOf(contexts, memLast.user_id, memLast.key)) = 1
        /\ \A i \in RowsOf(contexts, memLast.user_id, memLast.key) :
                /\ contexts[i].value = memLast.value
                /\ contexts[i].confidence_score = memLast.confidence_score

\* C7 witness: the second of two upserts of one key, with a different value
\* and a different confidence.
C7_Witness ==
    /\ memLast.op = "upsert" /\ memLast.priorRows = 1
    /\ memLast.priorValue # memLast.value
    /\ memLast.confidence_score = ConfInferred
    /\ \E i \in RowsOf(contexts, memLast.user_id, memLast.key) :
            contexts[i].value = memLast.value

\* C8: there is at most one UserContext row per (user, key), also after
\* concurrent upserts of one key.
C8_UniquePerUserKey ==
    \A u \in UserIds, k \in CtxKeys : Cardinality(RowsOf(contexts, u, k)) <= 1

\* C24: a call of update_or_create_context on a (user, key) that has a fact
\* overwrites the value, the confidence and the provenance of that fact
\* with the arguments (no provenance when none is given), and leaves its
\* usage_count and last_used, every other fact and the number of facts as
\* they were; on a (user, key) with no fact it adds one fact with the
\* arguments, usage_count 0 and no last_used, and leaves the others.
C24_UpsertFrame ==
    [][(memLast'.op = "upsert" /\ memOps' = memOps + 1) =>
        LET call == memLast'
            rows == {i \in 1 .. Len(contexts) :
                        contexts[i].user_id = call.user_id /\ contexts[i].key = call.key}
        IN  IF rows # {}
            THEN LET e == CHOOSE i \in rows : \A j \in rows : i <= j
                 IN  /\ Len(contexts') = Len(contexts)
                     /\ contexts'[e] =
                            [user_id |-> call.user_id, key |-> call.key,
                             value |-> call.value,
                             learned_from_conversation_id |-> call.conversation_id,
                             confidence_score |-> call.confidence_score,
                             usage_count |-> contexts[e].usage_count,
                             last_used |-> contexts[e].last_used]
                     /\ \A i \in 1 .. Len(contexts) : i # e => contexts'[i] = contexts[i]
            ELSE /\ Len(contexts') = Len(contexts) + 1
                 /\ contexts'[Len(contexts')] =
                            [user_id |-> call.user_id, key |-> call.key,
                             value |-> call.value,
                             learned_from_conversation_id |-> call.conversation_id,
                             confidence_score |-> call.confidence_score,
                             usage_count |-> 0, last_used |-> 0]
                 /\ \A i \in 1 .. Len(contexts) : contexts'[i] = contexts[i]]_vars

\* An upsert with no provenance has overwritten a fact that was used
\* before, with another value.
C24_Witness ==
    /\ memLast.op = "upsert" /\ memLast.priorRows = 1
    /\ memLast.priorValue # memLast.value
    /\ memLast.conversation_id = NoConv
    /\ \E i \in RowsOf(contexts, memLast.user_id, memLast.key) :
            /\ contexts[i].usage_count = 1 /\ contexts[i].last_used > 0
            /\ contexts[i].value = memLast.value
            /\ contexts[i].learned_from_conversation_id = NoConv

\* An upsert has added a fact to a table that holds a used one.
C24_CreateWitness ==
    /\ memLast.op = "upsert" /\ memLast.priorRows = 0
    /\ Len(contexts) = 2
    /\ contexts[1].usage_count = 1
    /\ contexts[2].usage_count = 0 /\ contexts[2].last_used = 0

\* C23: delete_context(user, key) returns true and removes the fact
\* (user, key) when it exists, and returns false when it does not; after
\* either, no fact (user, key) is left, so a second deletion returns false.
C23_DeleteRemovesFact ==
    memLast.op = "delete" =>
        /\ memLast.result = (memLast.priorRows > 0)
        /\ RowsOf(contexts, memLast.user_id, memLast.key) = {}

----------------------------------------------------------------------------
(***************************************************************************)
(* The embedding store, src/app/services/embedding_service.py.             *)
(***************************************************************************)
\* The vectors the embedding capability answers.
EmbVectors == {<<1, 0>>, <<0, 1>>}

\* What generate_embedding and the commit that follows it do in one call:
\* the capability raises, the commit raises, or a vector is stored.
EmbOutcomes ==
    {[kind |-> "error", vector |-> <<>>], [kind |-> "commit_error", vector |-> <<1, 0>>]}
    \cup {[kind |-> "ok", vector |-> v] : v \in EmbVectors}

\* The same for the text of one assistant reply, whose vector is <<1, 0>>.
ReplyEmbOutcomes ==
    {[kind |-> "error", vector |-> <<>>], [kind |-> "ok", vector |-> <<1, 0>>]}

\* json.dumps of a vector, and json.loads of the stored text.
JsonDumps(vector) == [json |-> vector]

JsonLoads(text) == text.json

\* The rows of a message, by their place in the table.
EmbRowsOf(embs, message_id) ==
    {i \in 1 .. Len(embs) : embs[i].message_id = message_id}

\* Mutant: the upsert always adds a row.
StoreEmbeddingAppends(embs, message_id, vector) ==
    Append(embs, [message_id |-> message_id, embedding |-> JsonDumps(vector)])

\* The upsert: existing.embedding = ..., or db.add(new_embedding).
StoreEmbedding(embs, message_id, vector) ==
    IF EmbRowsOf(embs, message_id) # {}
    THEN [embs EXCEPT ![Min(EmbRowsOf(embs, message_id))].embedding = JsonDumps(vector)]
    ELSE Append(embs, [message_id |-> message_id, embedding |-> JsonDumps(vector)])

\* Mutant: a failed call leaves the row it was about to commit.
EmbeddingFailedKeepsRow(embs, message_id, vector) ==
    [result |-> FALSE, embeddings |-> StoreEmbedding(embs, message_id, vector)]

\* except Exception: self.db.rollback(); return False.  Everything before
\* the call was committed, so the rollback drops only the row of this call.
EmbeddingFailed(embs, message_id, vector) ==
    [result |-> FALSE, embeddings |-> embs]

\* generate_and_store_embedding(message_id, content).
generate_and_store_embedding(embs, message_id, outcome) ==
    IF outcome.kind = "ok"
    THEN [result |-> TRUE, embeddings |-> StoreEmbedding(embs, message_id, outcome.vector)]
    ELSE EmbeddingFailed(embs, message_id, outcome.vector)

(***************************************************************************)
(* The prompt builder, src/app/core/prompts.py.  A prompt is the sequence  *)
(* of its parts: a template, separators, clauses.                          *)
(***************************************************************************)
\* The keys of SYSTEM_PROMPTS.
SYSTEM_PROMPTS ==
    {"blog", "social_media", "email", "product_description", "youtube_script",
     "resume", "translation", "rewrite", "summarize", "seo", "default"}

Part(kind, key, text) == [kind |-> kind, key |-> key, text |-> text]

\* Mutant: every content type gets the default template.
get_default_prompt(content_type) == Part("template", "default", "")

\* SYSTEM_PROMPTS.get(content_type, SYSTEM_PROMPTS["default"])
get_system_prompt(content_type) ==
    Part("template", IF content_type \in SYSTEM_PROMPTS THEN content_type ELSE "default", "")

\* if user_context.get(key): the key is there and its value is not empty.
HasValue(user_context, key) == key \in DOMAIN user_context /\ user_context[key] # ""

\* The clause of a key: the f-string of the key around the value.
Clause(user_context, key) ==
    IF HasValue(user_context, key) THEN <<Part("clause", key, user_context[key])>> ELSE <<>>

\* sep.join(parts)
RECURSIVE Join(_, _)
Join(parts, sep) ==
    IF Len(parts) <= 1 THEN parts
    ELSE <<Head(parts), Part("sep", "", sep)>> \o Join(Tail(parts), sep)

\* build_personalized_prompt(content_type, user_context)
build_personalized_prompt(content_type, user_context) ==
    LET base_prompt == get_system_prompt(content_type)
        personalization ==
            Clause(user_context, "writing_style") \o Clause(user_context, "industry")
            \o Clause(user_context, "tone_preference")
            \o Clause(user_context, "target_audience")
    IN  IF personalization # <<>>
        THEN <<base_prompt, Part("sep", "", "\n\n")>> \o Join(personalization, " ")
        ELSE <<base_prompt>>

\* The inputs: content types (one of them unrecognized) and snapshots over
\* the four keys and one more, a value being a word or empty.
PromptContentTypes == {"blog", "email", "default", "poem"}

PromptKeys == {"writing_style", "industry", "tone_preference", "target_audience", "hobby"}

PromptValues == {"casual", ""}

Snapshots == UNION {[K -> PromptValues] : K \in SUBSET PromptKeys}

NoPrompt == [made |-> FALSE, content_type |-> "", user_context |-> <<>>, result |-> <<>>]

InitPrompt == promptLast = NoPrompt

\* One call of build_personalized_prompt.
BuildPersonalizedPrompt(content_type, user_context) ==
    /\ ~promptLast.made
    /\ promptLast' = [made |-> TRUE, content_type |-> content_type,
                      user_context |-> user_context,
                      result |-> build_personalized_prompt(content_type, user_context)]
    /\ UNCHANGED notPrompt

NextPrompt ==
    \E content_type \in PromptContentTypes, user_context \in Snapshots :
        BuildPersonalizedPrompt(content_type, user_context)

(***************************************************************************)
(* Claims about the prompt builder.                                        *)
(***************************************************************************)
\* The four recognized keys, in the order of their clauses.
ClauseOrder == <<"writing_style", "industry", "tone_preference", "target_audience">>

\* The keys of the clauses of a prompt, in the order they appear.
RECURSIVE ClauseKeys(_)
ClauseKeys(prompt) ==
    IF prompt = <<>> THEN <<>>
    ELSE (IF Head(prompt).kind = "clause" THEN <<Head(prompt).key>> ELSE <<>>)
         \o ClauseKeys(Tail(prompt))

\* The keys of a sequence that are kept by a set, in the order of the sequence.
RECURSIVE KeptOf(_, _)
KeptOf(keys, S) ==
    IF keys = <<>> THEN <<>>
    ELSE (IF Head(keys) \in S THEN <<Head(keys)>> ELSE <<>>) \o KeptOf(Tail(keys), S)

\* C18: the result of build_personalized_prompt starts with the template of
\* the content type, the default one when the type is unrecognized; then
\* come the clauses of writing_style, industry, tone_preference and
\* target_audience in that order, a clause only if its key is in the
\* snapshot (and its value is not empty); unrecognized keys add nothing;
\* "blog" with {writing_style: "casual"} gives the blog template and the
\* casual-style clause.
C18_PromptShape ==
    promptLast.made =>
        LET ct == promptLast.content_type
            ctx == promptLast.user_context
            R == promptLast.result
            known == {k \in DOMAIN ctx : k \in {ClauseOrder[i] : i \in 1 .. 4}}
        IN  /\ R[1].kind = "template"
            /\ R[1].key = (IF ct \in SYSTEM_PROMPTS THEN ct ELSE "default")
            /\ \A i \in 2 .. Len(R) : R[i].kind # "template"
            /\ ClauseKeys(R) = KeptOf(ClauseOrder, {k \in DOMAIN ctx : ctx[k] # ""})
            /\ \A i \in 1 .. Len(R) :
                    R[i].kind = "clause" =>
                        R[i].key \in DOMAIN ctx /\ R[i].text = ctx[R[i].key]
            /\ R = build_personalized_prompt(ct, [k \in known |-> ctx[k]])
            /\ (ct = "blog" /\ DOMAIN ctx = {"writing_style"}
                    /\ ctx["writing_style"] = "casual") =>
                    R = <<Part("template", "blog", ""), Part("sep", "", "\n\n"),
                          Part("clause", "writing_style", "casual")>>

\* C18 witness: the blog type with {writing_style: "casual"}.
C18_Witness ==
    /\ promptLast.made
    /\ promptLast.content_type = "blog"
    /\ DOMAIN promptLast.user_context = {"writing_style"}
    /\ promptLast.user_context["writing_style"] = "casual"
    /\ Len(promptLast.result) = 3

\* C18 witness: an unrecognized type, all five keys, two of the values empty.
C18_DefaultWitness ==
    /\ promptLast.made
    /\ promptLast.content_type = "poem"
    /\ DOMAIN promptLast.user_context = PromptKeys
    /\ ClauseKeys(promptLast.result) = <<"industry", "target_audience">>
    /\ promptLast.result[1].key = "default"

----------------------------------------------------------------------------
(***************************************************************************)
(* The conversation orchestrator,                                          *)
(* src/app/services/conversation_service.py.                               *)
(***************************************************************************)
\* settings.DEFAULT_MODEL
DEFAULT_MODEL == "gpt-4o-mini"

\* total_tokens of a completion.
TokenCounts == {250}

\* What the language model does in one call: it raises, or answers.
LlmOutcomes ==
    {[ok |-> FALSE, tokens |-> 0]} \cup {[ok |-> TRUE, tokens |-> t] : t \in TokenCounts}

\* No embedding call was made.
NoEmbCall == [kind |-> "", vector |-> <<>>]

\* What extract_context returns: a mapping, here as its items in order.  A
\* value is tagged with its type; these are strings, maybe empty.
StrValue(text) == [kind |-> "str", text |-> text]

ExtractOutcomes ==
    {<<>>,
     <<[key |-> "writing_style", value |-> StrValue("casual")]>>,
     <<[key |-> "writing_style", value |-> StrValue("formal")],
       [key |-> "industry", value |-> StrValue("")]>>}

\* Mutant: every string is saved, the empty one too.
IsSavableAnyString(value) == value.kind = "str"

\* if value and isinstance(value, str)
IsSavable(value) == value.kind = "str" /\ value.text # ""

\* extract_and_save_context: each savable item is upserted with confidence
\* 0.7 and the conversation as provenance.
RECURSIVE SaveExtracted(_, _, _, _)
SaveExtracted(ctxs, user_id, conversation_id, extracted) ==
    IF extracted = <<>> THEN ctxs
    ELSE SaveExtracted(
            IF IsSavable(Head(extracted).value)
            THEN update_or_create_context(ctxs, user_id, Head(extracted).key,
                        Head(extracted).value.text, conversation_id, ConfInferred)
            ELSE ctxs,
            user_id, conversation_id, Tail(extracted))

\* saved_contexts: the items that were saved.
SavedContexts(extracted) ==
    {[key |-> extracted[i].key, value |-> extracted[i].value.text] :
        i \in {j \in 1 .. Len(extracted) : IsSavable(extracted[j].value)}}

\* get_user_context: key -> value over the user's rows by descending
\* confidence, a later row replacing an earlier one of the same key.
get_user_context(ctxs, user_id) ==
    {[key |-> ctxs[i].key, value |-> ctxs[i].value] :
        i \in {j \in 1 .. Len(ctxs) :
                /\ ctxs[j].user_id = user_id
                /\ \A l \in RowsOf(ctxs, user_id, ctxs[j].key) :
                        \/ ctxs[j].confidence_score < ctxs[l].confidence_score
                        \/ (ctxs[j].confidence_score = ctxs[l].confidence_score /\ l <= j)}}

\* The database as one value.
DB == [conversations |-> conversations, messages |-> messages,
       embeddings |-> embeddings, contexts |-> contexts, nextId |-> nextId]

\* generate_conversation_title(message): first_message[:50], with "..."
\* appended to a longer message.  The messages here are shorter than that.
generate_conversation_title(message) == message

\* create_conversation(user_id, title): a fresh uuid4 as id.
create_conversation(db, user_id, title) ==
    [db EXCEPT
        !.conversations = Append(@, [id |-> db.nextId, user_id |-> user_id,
                                     title |-> title, updated_at |-> 0]),
        !.nextId = @ + 1]

\* Mutant: the conversation is looked up by its id alone.
get_conversation_of_anyone(db, conversation_id, user_id) ==
    LET S == {i \in 1 .. Len(db.conversations) : db.conversations[i].id = conversation_id}
    IN  IF S = {} THEN 0 ELSE Min(S)

\* get_conversation(conversation_id, user_id): the row's place, 0 for None.
get_conversation(db, conversation_id, user_id) ==
    LET S == {i \in 1 .. Len(db.conversations) :
                /\ db.conversations[i].id = conversation_id
                /\ db.conversations[i].user_id = user_id}
    IN  IF S = {} THEN 0 ELSE Min(S)

\* Mutant: the message is saved and the conversation is left as it was.
save_message_only(db, conversation_id, role, content, tokens_used, model_used) ==
    [db EXCEPT
        !.messages = Append(@, [id |-> db.nextId, conversation_id |-> conversation_id,
                                role |-> role, content |-> content,
                                tokens_used |-> tokens_used, model_used |-> model_used]),
        !.nextId = @ + 1]

\* save_message: the message gets a fresh uuid4, and the conversation's
\* updated_at is set in the same commit (here: to the message's stamp).
save_message(db, conversation_id, role, content, tokens_used, model_used) ==
    [db EXCEPT
        !.messages = Append(@, [id |-> db.nextId, conversation_id |-> conversation_id,
                                role |-> role, content |-> content,
                                tokens_used |-> tokens_used, model_used |-> model_used]),
        !.conversations = [i \in 1 .. Len(@) |->
                IF @[i].id = conversation_id
                THEN [@[i] EXCEPT !.updated_at = db.nextId] ELSE @[i]],
        !.nextId = @ + 1]

\* The history limit of get_recent_messages.
HistoryLimit == 10

\* get_recent_messages(conversation_id, limit): the last `limit` messages of
\* the conversation, oldest first, as role and content.
RECURSIVE SelectSeq2(_, _)
SelectSeq2(seq, conversation_id) ==
    IF seq = <<>> THEN <<>>
    ELSE IF Head(seq).conversation_id = conversation_id
         THEN <<[role |-> Head(seq).role, content |-> Head(seq).content]>>
              \o SelectSeq2(Tail(seq), conversation_id)
         ELSE SelectSeq2(Tail(seq), conversation_id)

\* Mutant: the oldest n.
FirstN(seq, n) ==
    IF Len(seq) <= n THEN seq ELSE SubSeq(seq, 1, n)

LastN(seq, n) ==
    IF Len(seq) <= n THEN seq ELSE SubSeq(seq, Len(seq) - n + 1, Len(seq))

get_recent_messages(db, conversation_id, limit) ==
    LastN(SelectSeq2(db.messages, conversation_id), limit)

\* No model id (a user message), no conversation.
NoModel == ""

\* The snapshot of get_user_context as a mapping.
AsDict(user_context) ==
    [k \in {r.key : r \in user_context} |->
        (CHOOSE r \in user_context : r.key = k).value]

\* conversation_history = self.get_recent_messages(conversation_id, limit=10),
\* whatever use_memory is.
HistoryForModel(db, conversation_id, use_memory) ==
    get_recent_messages(db, conversation_id, HistoryLimit)

\* generate_with_context: the messages sent to the model are the system
\* prompt, the last ten of the history, the user message.
generate_with_context(user_message, content_type, user_context, conversation_history) ==
    LET system_prompt ==
            IF user_context # {}
            THEN build_personalized_prompt(content_type, AsDict(user_context))
            ELSE <<get_system_prompt(content_type)>>
    IN  <<[role |-> "system", content |-> system_prompt]>>
        \o LastN(conversation_history, 10)
        \o <<[role |-> "user", content |-> user_message]>>

\* chat_with_memory up to the model call: the conversation is resolved (and
\* created when no id is given), the context and the history are read.
ChatResolve(db, user_id, message, conversation_id) ==
    IF conversation_id = NoConv
    THEN LET created == create_conversation(db, user_id, "New Conversation")
         IN  [found |-> TRUE, conversation_id |-> db.nextId,
              db |-> [created EXCEPT !.conversations[Len(created.conversations)].title =
                            generate_conversation_title(message)]]
    ELSE [found |-> get_conversation(db, conversation_id, user_id) # 0,
          conversation_id |-> conversation_id, db |-> db]

\* chat_with_memory after the model has answered: the two messages, the
\* embedding of the assistant message, the extraction.
ChatPersist(db, user_id, message, conversation_id, use_memory, reply, tokens_used, model_used, emb, extracted) ==
    LET db1 == save_message(db, conversation_id, "user", message, 0, NoModel)
        db2 == save_message(db1, conversation_id, "assistant", reply, tokens_used, model_used)
        assistant_id == db1.nextId
        stored == generate_and_store_embedding(db2.embeddings, assistant_id, emb)
        db3 == [db2 EXCEPT !.embeddings = stored.embeddings]
        db4 == IF use_memory
               THEN [db3 EXCEPT !.contexts =
                        SaveExtracted(@, user_id, conversation_id, extracted)]
               ELSE db3
    IN  [db |-> db4, assistant_id |-> assistant_id, user_message_id |-> db.nextId,
         embedded |-> stored.result,
         learned_context |-> IF use_memory THEN SavedContexts(extracted) ELSE {}]

\* chat_with_memory(user_id, message, conversation_id, use_memory): the new
\* database and what the call returns or raises.
chat_with_memory(db, user_id, message, conversation_id, use_memory, reply, llm, emb, extracted) ==
    LET r == ChatResolve(db, user_id, message, conversation_id)
        user_context == IF use_memory THEN get_user_context(r.db.contexts, user_id) ELSE {}
        conversation_history == HistoryForModel(r.db, r.conversation_id, use_memory)
        sent == generate_with_context(message, "default", user_context, conversation_history)
        p == ChatPersist(r.db, user_id, message, r.conversation_id, use_memory,
                         reply, llm.tokens, DEFAULT_MODEL, emb, extracted)
        base == [status |-> "", conversation_id |-> r.conversation_id,
                 called_model |-> FALSE, context_applied |-> user_context,
                 history |-> conversation_history,
                 history_sent |-> 0, sent |-> <<>>,
                 user_message_id |-> 0, assistant_id |-> 0, embedded |-> FALSE,
                 tokens_used |-> 0, model_used |-> NoModel, learned_context |-> {},
                 db |-> r.db]
    IN  IF ~r.found
        THEN [base EXCEPT !.status = "not_found", !.context_applied = {},
                          !.history = <<>>]
        ELSE IF ~llm.ok
        THEN [base EXCEPT !.status = "model_error", !.called_model = TRUE,
                          !.history_sent = Len(sent) - 2, !.sent = Tail(sent)]
        ELSE [base EXCEPT !.status = "ok", !.called_model = TRUE,
                          !.history_sent = Len(sent) - 2, !.sent = Tail(sent),
                          !.user_message_id = p.user_message_id,
                          !.assistant_id = p.assistant_id,
                          !.embedded = p.embedded,
                          !.tokens_used = llm.tokens, !.model_used = DEFAULT_MODEL,
                          !.learned_context = p.learned_context,
                          !.db = p.db]

NoChat == [status |-> "", user_id |-> 0, use_memory |-> FALSE, emb |-> "",
           conversation_id |-> NoConv, user_message_id |-> 0, assistant_id |-> 0,
           embedded |-> FALSE, messagesBefore |-> 0,
           requested |-> NoConv, called_model |-> FALSE, context_sent |-> {},
           history_sent |-> 0, tokens_used |-> 0, model_used |-> NoModel,
           sent |-> <<>>]

NoEmbed == [made |-> FALSE, message_id |-> 0, vector |-> <<>>, result |-> FALSE,
            priorRows |-> 0, sameAsPrior |-> FALSE]

InitChat ==
    /\ conversations = <<>>
    /\ messages = <<>>
    /\ embeddings = <<>>
    /\ nextId = 1
    /\ chatLast = NoChat
    /\ chatOps = 0
    /\ embLast = NoEmbed
    /\ embOps = 0

\* The conversation ids a caller may pass: none, one that exists (its own or
\* another user's), or one that does not exist.
ConvChoices == {NoConv} \cup {conversations[i].id : i \in 1 .. Len(conversations)} \cup {nextId}

\* What one whole call of chat_with_memory does.
ChatCall(u, cid, use_memory, llm, emb, extracted) ==
    LET c == chat_with_memory(DB, u, <<"message", chatOps + 1>>, cid, use_memory,
                              <<"reply", chatOps + 1>>, llm, emb, extracted)
    IN  /\ chatOps' = chatOps + 1
        /\ conversations' = c.db.conversations
        /\ messages' = c.db.messages
        /\ embeddings' = c.db.embeddings
        /\ contexts' = c.db.contexts
        /\ nextId' = c.db.nextId
        /\ chatLast' = [status |-> c.status, user_id |-> u, use_memory |-> use_memory,
                        emb |-> emb.kind, conversation_id |-> c.conversation_id,
                        user_message_id |-> c.user_message_id,
                        assistant_id |-> c.assistant_id, embedded |-> c.embedded,
                        messagesBefore |-> Len(messages),
                        requested |-> cid, called_model |-> c.called_model,
                        context_sent |-> c.context_applied,
                        history_sent |-> c.history_sent,
                        tokens_used |-> c.tokens_used, model_used |-> c.model_used,
                        sent |-> c.sent]
        /\ UNCHANGED <<embLast, embOps, notChat>>

\* One whole call of chat_with_memory.
ChatWithMemory(u, cid, use_memory, llm, emb, extracted) ==
    /\ chatOps < MaxChats
    /\ ChatCall(u, cid, use_memory, llm, emb, extracted)

\* One call of a long run of chats of one user: the model answers (or
\* raises, at the last call), no embedding is stored, nothing is extracted.
ChatInLongRun(cid, llm) ==
    /\ chatOps < MaxHistoryChats
    /\ llm.ok \/ chatOps + 1 = MaxHistoryChats
    /\ ChatCall(1, cid, TRUE, llm, IF llm.ok THEN [kind |-> "error", vector |-> <<>>] ELSE NoEmbCall, <<>>)

NextHistory ==
    \E cid \in ConvChoices \ {nextId}, llm \in LlmOutcomes : ChatInLongRun(cid, llm)

\* One whole direct call of generate_and_store_embedding on a message.
GenerateAndStoreEmbedding(m, outcome) ==
    LET g == generate_and_store_embedding(embeddings, m, outcome)
        rows == EmbRowsOf(embeddings, m)
    IN  /\ embOps < MaxEmbeds
        /\ embOps' = embOps + 1
        /\ embeddings' = g.embeddings
        /\ embLast' = [made |-> TRUE, message_id |-> m, vector |-> outcome.vector,
                       result |-> g.result, priorRows |-> Cardinality(rows),
                       sameAsPrior |-> \E i \in rows :
                            JsonLoads(embeddings[i].embedding) = outcome.vector]
        /\ chatLast' = NoChat
        /\ UNCHANGED <<conversations, messages, nextId, contexts, chatOps, notChat>>

\* What the collaborators do during one call: the model raises and nothing
\* else is called, or it answers, the embedding is attempted, and the
\* extraction runs when memory is in use.
Collaborators(use_memory) ==
    {[llm |-> l, emb |-> NoEmbCall, extracted |-> <<>>] : l \in {o \in LlmOutcomes : ~o.ok}}
    \cup {[llm |-> l, emb |-> e, extracted |-> x] :
            l \in {o \in LlmOutcomes : o.ok}, e \in ReplyEmbOutcomes,
            x \in IF use_memory THEN ExtractOutcomes ELSE {<<>>}}

NextChat ==
    \/ \E u \in UserIds, cid \in ConvChoices, use_memory \in BOOLEAN :
         \E c \in Collaborators(use_memory) :
            ChatWithMemory(u, cid, use_memory, c.llm, c.emb, c.extracted)
    \/ \E i \in 1 .. Len(messages), outcome \in EmbOutcomes :
            GenerateAndStoreEmbedding(messages[i].id, outcome)

----------------------------------------------------------------------------
(***************************************************************************)
(* Claims about the embedding store and the orchestrator.                  *)
(***************************************************************************)
MessageIds == {messages[i].id : i \in 1 .. Len(messages)}

\* C9: after a successful generate_and_store_embedding call for a message,
\* whatever calls came before it, exactly one embedding row exists for the
\* message and it holds the vector of that call; so a second call with the
\* same arguments leaves the same single row.
C9_OneRowLastVector ==
    /\ (embLast.made /\ embLast.result) =>
            /\ Cardinality(EmbRowsOf(embeddings, embLast.message_id)) = 1
            /\ \A i \in EmbRowsOf(embeddings, embLast.message_id) :
                    JsonLoads(embeddings[i].embedding) = embLast.vector
    /\ \A m \in MessageIds : Cardinality(EmbRowsOf(embeddings, m)) <= 1

\* C9 witness: a successful call on a message that already had a row with
\* the same vector.
C9_Witness ==
    /\ embLast.made /\ embLast.result
    /\ embLast.priorRows = 1 /\ embLast.sameAsPrior

\* C9 witness: a successful call that replaced another vector.
C9_ReplaceWitness ==
    /\ embLast.made /\ embLast.result
    /\ embLast.priorRows = 1 /\ ~embLast.sameAsPrior

\* C10: when the embedding capability fails during chat_with_memory, the
\* call still returns normally, the user message and the assistant message
\* it wrote stay persisted, and no embedding row exists for the assistant
\* message.
C10_EmbeddingFailureAbsorbed ==
    (chatLast.status # "" /\ chatLast.status # "not_found"
        /\ chatLast.status # "model_error" /\ chatLast.emb = "error") =>
        /\ chatLast.status = "ok"
        /\ ~chatLast.embedded
        /\ Len(messages) = chatLast.messagesBefore + 2
        /\ \E i, j \in 1 .. Len(messages) :
                /\ i < j
                /\ messages[i].id = chatLast.user_message_id
                /\ messages[i].role = "user"
                /\ messages[i].conversation_id = chatLast.conversation_id
                /\ messages[j].id = chatLast.assistant_id
                /\ messages[j].role = "assistant"
                /\ messages[j].conversation_id = chatLast.conversation_id
        /\ EmbRowsOf(embeddings, chatLast.assistant_id) = {}

\* C10 witness: a chat whose model call answered and whose embedding call
\* failed, after an earlier chat whose reply was embedded.
C10_Witness ==
    /\ chatLast.status = "ok" /\ chatLast.emb = "error"
    /\ chatLast.messagesBefore = 2
    /\ Len(messages) = 4
    /\ Len(embeddings) = 1

\* The user owns a conversation of this id.
Owns(u, cid) ==
    \E i \in 1 .. Len(conversations) :
        conversations[i].id = cid /\ conversations[i].user_id = u

\* C12: a chat_with_memory call with a conversation id that does not exist,
\* or that is another user's, fails with the not-found error, the model is
\* not invoked, and conversations, messages, embeddings and context facts
\* stay exactly as they were.
C12_NotFoundBeforeModel ==
    [][(/\ chatOps' = chatOps + 1
        /\ chatLast'.requested # NoConv
        /\ ~Owns(chatLast'.user_id, chatLast'.requested))
       => (/\ chatLast'.status = "not_found"
           /\ ~chatLast'.called_model
           /\ UNCHANGED <<conversations, messages, embeddings, contexts>>)]_vars

\* The not-found case with a conversation of another user, and with a
\* conversation that does not exist, both with rows in the tables.
C12_Witness ==
    /\ chatLast.status = "not_found"
    /\ \E i \in 1 .. Len(conversations) :
            /\ conversations[i].id = chatLast.requested
            /\ conversations[i].user_id # chatLast.user_id
    /\ Len(messages) = 2

C12_AbsentWitness ==
    /\ chatLast.status = "not_found"
    /\ \A i \in 1 .. Len(conversations) : conversations[i].id # chatLast.requested
    /\ Len(messages) = 2

\* The conversation row of an id.
ConversationOf(cid) ==
    conversations[CHOOSE i \in 1 .. Len(conversations) : conversations[i].id = cid]

\* C14: a successful chat_with_memory call appends exactly two messages to
\* the conversation, the user message first with 0 tokens and no model id,
\* the assistant message second with the returned token count and model
\* id; a call whose model invocation fails appends none; and the
\* conversation's updated-at is the stamp of the later of the two messages.
C14_TwoMessagesInOrder ==
    /\ chatLast.status = "ok" =>
            LET n == chatLast.messagesBefore
            IN  /\ Len(messages) = n + 2
                /\ messages[n + 1].id = chatLast.user_message_id
                /\ messages[n + 1].conversation_id = chatLast.conversation_id
                /\ messages[n + 1].role = "user"
                /\ messages[n + 1].tokens_used = 0
                /\ messages[n + 1].model_used = NoModel
                /\ messages[n + 2].id = chatLast.assistant_id
                /\ messages[n + 2].conversation_id = chatLast.conversation_id
                /\ messages[n + 2].role = "assistant"
                /\ messages[n + 2].tokens_used = chatLast.tokens_used
                /\ messages[n + 2].model_used = chatLast.model_used
                /\ chatLast.model_used # NoModel
                /\ chatLast.tokens_used > 0
                /\ chatLast.user_message_id < chatLast.assistant_id
                /\ ConversationOf(chatLast.conversation_id).updated_at >= chatLast.assistant_id
    /\ chatLast.status \in {"model_error", "not_found"} =>
            Len(messages) = chatLast.messagesBefore

\* A successful call in a conversation that already holds two messages.
C14_Witness ==
    /\ chatLast.status = "ok"
    /\ chatLast.messagesBefore = 2
    /\ chatLast.requested = chatLast.conversation_id
    /\ Len(messages) = 4

\* The places in the messages table of the messages a conversation held
\* before the last chat call.
PriorOf(cid) ==
    {i \in 1 .. chatLast.messagesBefore : messages[i].conversation_id = cid}

\* The j-th of the last k of a set of places, in increasing order.
NthOfLast(S, k, j) == CHOOSE i \in S : Cardinality({l \in S : l > i}) = k - j

\* C25: for a conversation holding n prior messages, what a chat_with_memory
\* call with use_memory = true sends to the model after the system prompt
\* is the min(n, 10) most recently created messages of that conversation,
\* oldest first, each as its role and content, followed by the new user
\* message; so no message of another conversation is in it.
C25_HistoryWindow ==
    (chatLast.called_model /\ chatLast.use_memory) =>
        LET S == PriorOf(chatLast.conversation_id)
            n == Cardinality(S)
            k == IF n <= 10 THEN n ELSE 10
        IN  /\ Len(chatLast.sent) = k + 1
            /\ \A j \in 1 .. k :
                    chatLast.sent[j] =
                        [role |-> messages[NthOfLast(S, k, j)].role,
                         content |-> messages[NthOfLast(S, k, j)].content]
            /\ chatLast.sent[k + 1] = [role |-> "user", content |-> <<"message", chatOps>>]

\* A call in a conversation that held more than ten messages, with
\* another conversation in the table.
C25_Witness ==
    /\ chatLast.called_model /\ chatLast.use_memory
    /\ Cardinality(PriorOf(chatLast.conversation_id)) = 12
    /\ Len(chatLast.sent) = 11
    /\ chatLast.sent[1] = [role |-> "user", content |-> <<"message", 2>>]

\* A call in a conversation with fewer than ten messages, after messages
\* of another conversation.
C25_ShortWitness ==
    /\ chatLast.called_model /\ chatLast.use_memory
    /\ Cardinality(PriorOf(chatLast.conversation_id)) = 2
    /\ chatLast.messagesBefore = 6
    /\ Len(chatLast.sent) = 3

\* C30: a chat_with_memory call that fails at the model step leaves no
\* message behind and, when no conversation_id was given, no conversation.
C30_FailedChatLeavesNothing ==
    chatLast.status = "model_error" =>
        /\ Len(messages) = chatLast.messagesBefore
        /\ chatLast.requested = NoConv =>
                \A i \in 1 .. Len(conversations) :
                    conversations[i].id # chatLast.conversation_id

\* C15: when chat_with_memory is called with use_memory = false, the
\* context snapshot and the history passed to the model are both empty.
C15_NoMemoryNothingSent ==
    (chatLast.called_model /\ ~chatLast.use_memory) =>
        (chatLast.context_sent = {} /\ chatLast.history_sent = 0)

----------------------------------------------------------------------------
(***************************************************************************)
(* Quota, usage logging and the entry points that invoke the model:        *)
(* src/app/api/deps.py, src/app/services/analytics_service.py,             *)
(* src/app/api/content.py, messages.py and conversations.py.               *)
(***************************************************************************)
ApiProcs == 1 .. NumRequests

\* calculate_credits(model, tokens)
credit_rates(model) ==
    CASE model = "gpt-4o" -> 10
      [] model = "gpt-4o-mini" -> 2
      [] model = "gpt-3.5-turbo" -> 1
      [] OTHER -> 1

Max(a, b) == IF a >= b THEN a ELSE b

\* Mutant: no minimum of one credit.
calculate_credits_no_minimum(model, tokens) == credit_rates(model) * (tokens \div 100)

calculate_credits(model, tokens) == Max(1, credit_rates(model) * (tokens \div 100))

\* check_quota: TRUE when the dependency raises 429.
check_quota(quota, user_id) == quota[user_id] >= MonthlyQuota

\* The entry points: POST /content/generate, POST /messages/{id},
\* POST /conversations.
Entries == {"content", "messages", "conversations"}

NoRequest == [entry |-> "", user_id |-> 0, conversation_id |-> NoConv,
              use_memory |-> FALSE, invokes_model |-> FALSE, over_quota |-> FALSE,
              status |-> "", called_model |-> FALSE, messages_written |-> 0,
              credits_used |-> 0, status_code |-> 0, read_quota |-> 0,
              logged |-> FALSE, model_failed |-> FALSE, tokens_used |-> 0,
              quota_before |-> 0, quota_after |-> 0]

InitApi ==
    /\ usedQuota = [u \in UserIds |-> 0]
    /\ usageLogs = <<>>
    /\ apiPc = [p \in ApiProcs |-> "idle"]
    /\ apiReq = [p \in ApiProcs |-> NoRequest]

\* A request ends with a response.
Respond(p, req, status) ==
    /\ apiPc' = [apiPc EXCEPT ![p] = "done"]
    /\ apiReq' = [apiReq EXCEPT ![p] = [req EXCEPT !.status = status]]

\* A request awaits the model.
AwaitModel(p, req) ==
    /\ apiPc' = [apiPc EXCEPT ![p] = "llm"]
    /\ apiReq' = [apiReq EXCEPT ![p] = [req EXCEPT !.called_model = TRUE]]

\* A request enters log_usage.
EnterLogUsage(p, req, credits_used, status_code) ==
    /\ apiPc' = [apiPc EXCEPT ![p] = "log_usage"]
    /\ apiReq' = [apiReq EXCEPT ![p] =
            [req EXCEPT !.credits_used = credits_used, !.status_code = status_code]]

\* POST /content/generate up to the model call.
GenerateContentCall(p, u) ==
    LET req == [NoRequest EXCEPT !.entry = "content", !.user_id = u,
                    !.invokes_model = TRUE, !.over_quota = check_quota(usedQuota, u)]
        rl == check_user_rate_limits(redis, u, "content", PerMinute, PerHour, now,
                                     "none", "none")
    IN  /\ apiPc[p] = "idle"
        /\ IF check_quota(usedQuota, u)
           THEN Respond(p, req, "quota_exceeded") /\ UNCHANGED redis
           ELSE /\ redis' = rl.redis
                /\ IF ~rl.allowed
                   THEN Respond(p, req, "rate_limited")
                   ELSE AwaitModel(p, req)
        /\ UNCHANGED <<usedQuota, usageLogs, conversations, messages, embeddings,
                       nextId, contexts, notApi>>

\* POST /messages/{conversation_id} up to the model call.
SendMessageCall(p, u, cid, use_memory) ==
    LET req == [NoRequest EXCEPT !.entry = "messages", !.user_id = u,
                    !.conversation_id = cid, !.use_memory = use_memory,
                    !.invokes_model = TRUE, !.over_quota = check_quota(usedQuota, u)]
        rl == check_user_rate_limits(redis, u, "messages", PerMinute, PerHour, now,
                                     "none", "none")
    IN  /\ apiPc[p] = "idle"
        /\ IF check_quota(usedQuota, u)
           THEN Respond(p, req, "quota_exceeded") /\ UNCHANGED redis
           ELSE /\ redis' = rl.redis
                /\ IF ~rl.allowed
                   THEN Respond(p, req, "rate_limited")
                   ELSE IF get_conversation(DB, cid, u) = 0
                   THEN Respond(p, req, "not_found")
                   ELSE AwaitModel(p, req)
        /\ UNCHANGED <<usedQuota, usageLogs, conversations, messages, embeddings,
                       nextId, contexts, notApi>>

\* POST /conversations up to the model call, or to its response when there
\* is no initial message.  The dependency is get_current_user.
CreateConversationCall(p, u, initial_message) ==
    LET req == [NoRequest EXCEPT !.entry = "conversations", !.user_id = u,
                    !.conversation_id = nextId, !.use_memory = TRUE,
                    !.invokes_model = initial_message,
                    !.over_quota = check_quota(usedQuota, u)]
        created == create_conversation(DB, u, "New Conversation")
    IN  /\ apiPc[p] = "idle"
        /\ conversations' = created.conversations
        /\ nextId' = created.nextId
        /\ IF initial_message THEN AwaitModel(p, req) ELSE Respond(p, req, "created")
        /\ UNCHANGED <<redis, usedQuota, usageLogs, messages, embeddings, contexts, notApi>>

\* The model raises: the two logging entry points log a failure, the third
\* lets the exception through.
ModelRaises(p) ==
    /\ apiPc[p] = "llm"
    /\ IF apiReq[p].entry = "conversations"
       THEN Respond(p, [apiReq[p] EXCEPT !.model_failed = TRUE], "error")
       ELSE EnterLogUsage(p, [apiReq[p] EXCEPT !.model_failed = TRUE, !.tokens_used = 0],
                          0, 500)
    /\ UNCHANGED <<redis, usedQuota, usageLogs, conversations, messages, embeddings,
                   nextId, contexts, notApi>>

\* The model answers: a chat persists its messages, the embedding and the
\* extraction; the two logging entry points go on to log the usage.
ModelAnswers(p, tokens, emb, extracted) ==
    LET req == apiReq[p]
        persisted == ChatPersist(DB, req.user_id, <<"message", p>>, req.conversation_id,
                                 req.use_memory, <<"reply", p>>, tokens, DEFAULT_MODEL,
                                 emb, extracted)
        credits_used == calculate_credits(DEFAULT_MODEL, tokens)
    IN  /\ apiPc[p] = "llm"
        /\ IF req.entry = "content"
           THEN /\ EnterLogUsage(p, [req EXCEPT !.tokens_used = tokens], credits_used, 200)
                /\ UNCHANGED <<conversations, messages, embeddings, nextId, contexts>>
           ELSE /\ conversations' = persisted.db.conversations
                /\ messages' = persisted.db.messages
                /\ embeddings' = persisted.db.embeddings
                /\ nextId' = persisted.db.nextId
                /\ contexts' = persisted.db.contexts
                /\ IF req.entry = "conversations"
                   THEN Respond(p, [req EXCEPT !.messages_written = 2], "created")
                   ELSE EnterLogUsage(p, [req EXCEPT !.messages_written = 2,
                                                     !.tokens_used = tokens],
                                      credits_used, 200)
        /\ UNCHANGED <<redis, usedQuota, usageLogs, notApi>>

\* log_usage, its read: the log row is added, the user row is queried.
LogUsageRead(p) ==
    /\ apiPc[p] = "log_usage"
    /\ apiPc' = [apiPc EXCEPT ![p] = "log_commit"]
    /\ apiReq' = [apiReq EXCEPT ![p].read_quota = usedQuota[apiReq[p].user_id]]
    /\ UNCHANGED <<redis, usedQuota, usageLogs, conversations, messages, embeddings,
                   nextId, contexts, notApi>>

\* Mutant: the value that was read is written back whatever the credits.
DebitAlways(quota, user_id, read_quota, credits_used) ==
    [quota EXCEPT ![user_id] = read_quota + credits_used]

\* user.used_quota += credits_used, on the value that was read.  The commit
\* writes the column only when the attribute has a new value: with 0
\* credits the flush has no UPDATE of the user row.
Debit(quota, user_id, read_quota, credits_used) ==
    IF credits_used = 0 THEN quota
    ELSE [quota EXCEPT ![user_id] = read_quota + credits_used]

\* log_usage, its commit: the log row and the new used_quota are written,
\* and the handler responds.
LogUsageCommit(p) ==
    LET req == apiReq[p]
        debited == Debit(usedQuota, req.user_id, req.read_quota, req.credits_used)
    IN  /\ apiPc[p] = "log_commit"
        /\ usageLogs' = Append(usageLogs, [request |-> p, user_id |-> req.user_id,
                                           tokens_used |-> req.tokens_used,
                                           credits_used |-> req.credits_used,
                                           status_code |-> req.status_code])
        /\ usedQuota' = debited
        /\ Respond(p, [req EXCEPT !.logged = TRUE,
                                  !.quota_before = usedQuota[req.user_id],
                                  !.quota_after = debited[req.user_id]],
                   IF req.status_code = 200 THEN "ok" ELSE "error")
        /\ UNCHANGED <<redis, conversations, messages, embeddings, nextId, contexts,
                       notApi>>

\* delete_conversation(conversation_id, user_id): the conversation of the
\* user is deleted, and by the cascade of the relationships its messages
\* and their embeddings.
delete_conversation(db, conversation_id, user_id) ==
    IF get_conversation(db, conversation_id, user_id) = 0
    THEN [result |-> FALSE, db |-> db]
    ELSE LET Kept(c) == c.id # conversation_id
             KeptMessage(m) == m.conversation_id # conversation_id
             gone == {db.messages[i].id : i \in {j \in 1 .. Len(db.messages) :
                            db.messages[j].conversation_id = conversation_id}}
             KeptEmbedding(e) == e.message_id \notin gone
         IN  [result |-> TRUE,
              db |-> [db EXCEPT !.conversations = SelectSeq(@, Kept),
                                !.messages = SelectSeq(@, KeptMessage),
                                !.embeddings = SelectSeq(@, KeptEmbedding)]]

\* One whole request to DELETE /conversations/{conversation_id}.
DeleteConversationCall(p, u, cid) ==
    LET d == delete_conversation(DB, cid, u)
        req == [NoRequest EXCEPT !.entry = "delete", !.user_id = u, !.conversation_id = cid]
    IN  /\ apiPc[p] = "idle"
        /\ conversations' = d.db.conversations
        /\ messages' = d.db.messages
        /\ embeddings' = d.db.embeddings
        /\ Respond(p, req, IF d.result THEN "deleted" ELSE "not_found")
        /\ UNCHANGED <<redis, usedQuota, usageLogs, nextId, contexts, notApi>>

\* The commit of save_message raises where the database enforces the
\* foreign key of messages.conversation_id and the conversation is gone:
\* create_conversation lets the exception through, send_message logs it.
SaveMessageRaises(p) ==
    /\ apiPc[p] = "llm"
    /\ apiReq[p].entry \in {"messages", "conversations"}
    /\ \A i \in 1 .. Len(conversations) : conversations[i].id # apiReq[p].conversation_id
    /\ IF apiReq[p].entry = "conversations"
       THEN Respond(p, apiReq[p], "error")
       ELSE EnterLogUsage(p, apiReq[p], 0, 500)
    /\ UNCHANGED <<redis, usedQuota, usageLogs, conversations, messages, embeddings,
                   nextId, contexts, notApi>>

NextApi ==
    \/ \E p \in ApiProcs, u \in UserIds : GenerateContentCall(p, u)
    \/ \E p \in ApiProcs, u \in UserIds, cid \in ConvChoices, use_memory \in BOOLEAN :
            SendMessageCall(p, u, cid, use_memory)
    \/ \E p \in ApiProcs, u \in UserIds, initial_message \in BOOLEAN :
            CreateConversationCall(p, u, initial_message)
    \/ \E p \in ApiProcs : ModelRaises(p)
    \/ \E p \in ApiProcs, tokens \in TokenCounts :
         \E c \in {x \in Collaborators(apiReq[p].use_memory) : x.llm.ok} :
            ModelAnswers(p, tokens, c.emb, c.extracted)
    \/ \E p \in ApiProcs : LogUsageRead(p)
    \/ \E p \in ApiProcs : LogUsageCommit(p)

\* The entry points and the deletion of conversations, requests
\* interleaving; a save into a deleted conversation is stored or refused,
\* as the database does or does not enforce foreign keys.
NextApiDelete ==
    \/ NextApi
    \/ \E p \in ApiProcs, u \in UserIds, cid \in ConvChoices : DeleteConversationCall(p, u, cid)
    \/ \E p \in ApiProcs : SaveMessageRaises(p)

----------------------------------------------------------------------------
(***************************************************************************)
(* Claims about quota and usage logging.                                   *)
(***************************************************************************)
\* C5: a request to an entry point that invokes the model (content
\* generation, send message, conversation creation with an initial message),
\* made by a user whose used_quota is at or above monthly_quota, is rejected
\* with the quota error before any model invocation, and writes no usage
\* record, no message and no counter change.
C5_OverQuotaRejected ==
    \A p \in ApiProcs :
        (apiPc[p] # "idle" /\ apiReq[p].invokes_model /\ apiReq[p].over_quota) =>
            /\ apiPc[p] = "done"
            /\ apiReq[p].status = "quota_exceeded"
            /\ ~apiReq[p].called_model
            /\ apiReq[p].messages_written = 0
            /\ ~apiReq[p].logged

RECURSIVE SumCredits(_, _)
SumCredits(logs, user_id) ==
    IF logs = <<>> THEN 0
    ELSE (IF Head(logs).user_id = user_id THEN Head(logs).credits_used ELSE 0)
         + SumCredits(Tail(logs), user_id)

\* C6: in every reachable state, whatever the interleaving of log_usage
\* calls, each user's used_quota is its initial value (0) plus the sum of
\* credits_used over the usage records written for the user.
C6_QuotaIsSumOfRecords ==
    \A u \in UserIds : usedQuota[u] = 0 + SumCredits(usageLogs, u)

\* C28: in every reachable state every persisted message belongs to a
\* conversation that exists and is owned by the user whose request wrote
\* the message, also when the conversation is deleted between the
\* ownership check and the saving of the messages.  (The content of a
\* message names the request that wrote it.)
C28_MessagesHaveConversation ==
    \A m \in 1 .. Len(messages) :
        \E c \in 1 .. Len(conversations) :
            /\ conversations[c].id = messages[m].conversation_id
            /\ conversations[c].user_id = apiReq[messages[m].content[2]].user_id

\* The usage records written by a request.
RecordsOf(p) == {i \in 1 .. Len(usageLogs) : usageLogs[i].request = p}

\* C13: when the model call fails during a send-message or a
\* content-generation request, the request ends with the error, no message
\* was persisted, exactly one usage record was written for it, with tokens
\* 0, credits 0 and the failure status, and the write of that record left
\* the user's used_quota as it was.
C13_ModelFailureLogged ==
    \A p \in ApiProcs :
        (/\ apiPc[p] = "done"
         /\ apiReq[p].entry \in {"content", "messages"}
         /\ apiReq[p].model_failed) =>
            /\ apiReq[p].status = "error"
            /\ apiReq[p].messages_written = 0
            /\ Cardinality(RecordsOf(p)) = 1
            /\ \A i \in RecordsOf(p) :
                    /\ usageLogs[i].user_id = apiReq[p].user_id
                    /\ usageLogs[i].tokens_used = 0
                    /\ usageLogs[i].credits_used = 0
                    /\ usageLogs[i].status_code = 500
            /\ apiReq[p].quota_after = apiReq[p].quota_before

\* C29: every request to an entry point (content generation, send message,
\* conversation creation with an initial message) that has returned a
\* generated response has written exactly one usage record, with the
\* credits of the generation, and has debited them from the user's quota.
C29_GenerationIsLogged ==
    \A p \in ApiProcs :
        (/\ apiPc[p] = "done"
         /\ apiReq[p].called_model
         /\ apiReq[p].status \in {"ok", "created"}) =>
            /\ Cardinality(RecordsOf(p)) = 1
            /\ \A i \in RecordsOf(p) :
                    /\ usageLogs[i].status_code = 200
                    /\ usageLogs[i].credits_used =
                            calculate_credits(DEFAULT_MODEL, usageLogs[i].tokens_used)
                    /\ apiReq[p].quota_after =
                            apiReq[p].quota_before + usageLogs[i].credits_used

\* A failed content-generation request has ended while another request of
\* the same user was debited between its read of the user row and its
\* commit.
C13_Witness ==
    \E p \in ApiProcs :
        /\ apiPc[p] = "done"
        /\ apiReq[p].entry = "content"
        /\ apiReq[p].model_failed
        /\ apiReq[p].logged
        /\ apiReq[p].quota_before > apiReq[p].read_quota

\* A failed send-message request has ended.
C13_MessagesWitness ==
    \E p \in ApiProcs :
        /\ apiPc[p] = "done"
        /\ apiReq[p].entry = "messages"
        /\ apiReq[p].model_failed
        /\ apiReq[p].logged
        /\ Len(usageLogs) = 1

----------------------------------------------------------------------------
(***************************************************************************)
(* One call of the language model, OpenAIService.generate_content, and the *)
(* credits of its result, src/app/utils/helpers.py.                        *)
(***************************************************************************)
\* The model a caller asks for: none, one of the rated ones, another one.
RequestedModels == {NoModel, "gpt-4o", "gpt-4o-mini", "gpt-3.5-turbo", "gpt-5"}

\* response.model, the model the API reports having used.
ReportedModels == {"gpt-4o", "gpt-4o-mini", "gpt-4o-mini-2024-07-18"}

\* The response of chat.completions.create.
Responses == [model : ReportedModels, total_tokens : 0 .. MaxTokens]

\* generate_content(messages, model): model is settings.DEFAULT_MODEL when
\* None, and is what the result gives as model_used.
generate_content(model, response) ==
    LET m == IF model = NoModel THEN DEFAULT_MODEL ELSE model
    IN  [tokens_used |-> response.total_tokens, model_used |-> m]

NoGen == [made |-> FALSE, model |-> NoModel,
          response |-> [model |-> NoModel, total_tokens |-> 0],
          result |-> [tokens_used |-> 0, model_used |-> NoModel], credits_used |-> 0]

InitGen == genLast = NoGen

\* One successful call of generate_content and the credits its caller
\* computes from the result.
GenerateContent(model, response) ==
    LET result == generate_content(model, response)
    IN  /\ ~genLast.made
        /\ genLast' = [made |-> TRUE, model |-> model, response |-> response,
                       result |-> result,
                       credits_used |-> calculate_credits(result.model_used, result.tokens_used)]
        /\ UNCHANGED notGen

NextGen == \E model \in RequestedModels, response \in Responses : GenerateContent(model, response)

\* C21: the model identifier returned as model_used, and used for the
\* credits, is the one the capability reports as used for the call.
C21_ReportedModelRecorded ==
    genLast.made =>
        /\ genLast.result.model_used = genLast.response.model
        /\ genLast.credits_used =
                calculate_credits(genLast.response.model, genLast.response.total_tokens)

\* The multiplier of a model identifier.
Multiplier(model) ==
    IF model = "gpt-4o" THEN 10 ELSE IF model = "gpt-4o-mini" THEN 2 ELSE 1

\* C22: for every model identifier and every token count >= 0 the credits
\* are max(1, multiplier * floor(tokens / 100)), with multiplier 10 for
\* gpt-4o, 2 for gpt-4o-mini, 1 for gpt-3.5-turbo and for an unknown
\* identifier, and so at least 1.
C22_CreditsFormula ==
    genLast.made =>
        LET tokens == genLast.result.tokens_used
            mult == Multiplier(genLast.result.model_used)
        IN  /\ genLast.credits_used >= 1
            /\ \E q \in 0 .. tokens :
                    /\ 100 * q <= tokens /\ tokens < 100 * (q + 1)
                    /\ genLast.credits_used = (IF mult * q >= 1 THEN mult * q ELSE 1)

\* Credits of an unknown model, above the minimum; credits at the minimum.
C22_Witness ==
    /\ genLast.made
    /\ genLast.result.model_used = "gpt-5"
    /\ genLast.result.tokens_used = 250
    /\ genLast.credits_used = 2

C22_MinimumWitness ==
    /\ genLast.made
    /\ genLast.result.model_used = "gpt-4o"
    /\ genLast.result.tokens_used = 99
    /\ genLast.credits_used = 1

----------------------------------------------------------------------------
(***************************************************************************)
(* Floating-point arithmetic, as numpy does it on float64, at a smaller    *)
(* precision: every operation yields the exact result rounded to           *)
(* MantissaBits significant bits, ties to even.  A float x is held as the  *)
(* integer x * 2^FractionBits.                                             *)
(***************************************************************************)
\* The float 1.0.
One == 2 ^ FractionBits

Abs(x) == IF x < 0 THEN -x ELSE x

SignOf(x) == IF x < 0 THEN -1 ELSE 1

\* The unit in the last place for the positive ratio num / den: the least
\* power of two u (at least one count) with num / den < 2^MantissaBits * u.
RECURSIVE UlpFor(_, _, _)
UlpFor(num, den, u) ==
    IF num < (2 ^ MantissaBits) * u * den THEN u ELSE UlpFor(num, den, 2 * u)

\* num / den (both in counts, den > 0, num >= 0) rounded to nearest, ties
\* to even.
RoundRatio(num, den) ==
    LET u == UlpFor(num, den, 1)
        q == num \div (den * u)
        r == num % (den * u)
    IN  IF 2 * r > den * u \/ (2 * r = den * u /\ q % 2 = 1)
        THEN (q + 1) * u ELSE q * u

\* float(x) of a small integer x.
Fl(x) == SignOf(x) * RoundRatio(Abs(x) * One, 1)

FAdd(a, b) == SignOf(a + b) * RoundRatio(Abs(a + b), 1)

FMul(a, b) == SignOf(a) * SignOf(b) * RoundRatio(Abs(a) * Abs(b), One)

\* a / b, for b # 0.
FDiv(a, b) == SignOf(a) * SignOf(b) * RoundRatio(Abs(a) * One, Abs(b))

\* The integer square root of n, between lo and hi.
RECURSIVE Isqrt(_, _, _)
Isqrt(n, lo, hi) ==
    IF lo >= hi THEN lo
    ELSE LET mid == (lo + hi + 1) \div 2
         IN  IF mid * mid <= n THEN Isqrt(n, mid, hi) ELSE Isqrt(n, lo, mid - 1)

\* sqrt(a), for a >= 0: the root of a * One in counts, rounded.
FSqrt(a) ==
    LET n == a * One
        s == Isqrt(n, 0, 2 ^ 15)
        u == UlpFor(s, 1, 1)
        q == s \div u
        m == (2 * q + 1) * u
    IN  IF 4 * n > m * m \/ (4 * n = m * m /\ q % 2 = 1)
        THEN (q + 1) * u ELSE q * u

(***************************************************************************)
(* cosine_similarity, src/app/services/embedding_service.py.               *)
(***************************************************************************)
\* np.dot(vec1, vec2) for arrays of one length: the products are summed
\* from the left.
RECURSIVE DotFrom(_, _, _, _)
DotFrom(vec1, vec2, i, acc) ==
    IF i > Len(vec1) THEN acc
    ELSE DotFrom(vec1, vec2, i + 1, FAdd(acc, FMul(Fl(vec1[i]), Fl(vec2[i]))))

np_dot(vec1, vec2) == DotFrom(vec1, vec2, 1, 0)

\* np.linalg.norm(vec): sqrt(dot(vec, vec)).
np_linalg_norm(vec) == FSqrt(np_dot(vec, vec))

\* Mutant: np.dot over the common prefix of arrays of different lengths.
ShapesMismatchNever(vec1, vec2) == FALSE

\* np.dot raises ValueError on arrays of different lengths.
ShapesMismatch(vec1, vec2) == Len(vec1) # Len(vec2)

\* Mutant: the zero-magnitude guard looks at the first norm only.
ZeroMagnitudeFirstOnly(norm1, norm2) == norm1 = 0

\* if norm1 == 0 or norm2 == 0
ZeroMagnitude(norm1, norm2) == norm1 = 0 \/ norm2 = 0

\* cosine_similarity(vec1, vec2): what it returns, or that it raised; and
\* whether it divided by zero.
cosine_similarity(vec1, vec2) ==
    IF ShapesMismatch(vec1, vec2)
    THEN [raised |-> TRUE, value |-> 0, divided_by_zero |-> FALSE]
    ELSE LET n == IF Len(vec1) <= Len(vec2) THEN Len(vec1) ELSE Len(vec2)
             v1 == SubSeq(vec1, 1, n)
             v2 == SubSeq(vec2, 1, n)
             dot_product == np_dot(v1, v2)
             norm1 == np_linalg_norm(vec1)
             norm2 == np_linalg_norm(vec2)
         IN  IF ZeroMagnitude(norm1, norm2)
             THEN [raised |-> FALSE, value |-> 0, divided_by_zero |-> FALSE]
             ELSE IF FMul(norm1, norm2) = 0
             THEN [raised |-> FALSE, value |-> 0, divided_by_zero |-> TRUE]
             ELSE [raised |-> FALSE, value |-> FDiv(dot_product, FMul(norm1, norm2)),
                   divided_by_zero |-> FALSE]

\* The vectors of the model's dimension.
Components == (0 - MaxComponent) .. MaxComponent

Vectors == [1 .. Dimension -> Components]

ZeroVector == [i \in 1 .. Dimension |-> 0]

NoCos == [made |-> FALSE, vec1 |-> <<>>, vec2 |-> <<>>,
          result |-> [raised |-> FALSE, value |-> 0, divided_by_zero |-> FALSE]]

InitCos == cosLast = NoCos

\* One call of cosine_similarity on two vectors of one dimension.
CosineSimilarity(vec1, vec2) ==
    /\ ~cosLast.made
    /\ cosLast' = [made |-> TRUE, vec1 |-> vec1, vec2 |-> vec2,
                   result |-> cosine_similarity(vec1, vec2)]
    /\ UNCHANGED notCos

NextCos == \E vec1 \in Vectors, vec2 \in Vectors : CosineSimilarity(vec1, vec2)

(***************************************************************************)
(* Claims about cosine_similarity.                                         *)
(***************************************************************************)
\* The magnitude of a vector is zero exactly when all its components are.
HasZeroMagnitude(vec) == \A i \in 1 .. Len(vec) : vec[i] = 0

\* Two units in the last place of 1.0.
Tolerance == 2 * (One \div (2 ^ (MantissaBits - 1)))

\* C19 as stated: for all vectors v of one dimension, cosine_similarity(v, v)
\* is 1.0 and cosine_similarity(v, zeroVector) is 0.0; the result is 0.0
\* whenever an argument has zero magnitude, and the call never divides by
\* zero or raises.
C19_SelfSimilarityIsOne ==
    cosLast.made =>
        /\ ~cosLast.result.raised
        /\ ~cosLast.result.divided_by_zero
        /\ (cosLast.vec1 = cosLast.vec2) => cosLast.result.value = One
        /\ (HasZeroMagnitude(cosLast.vec1) \/ HasZeroMagnitude(cosLast.vec2)) =>
                cosLast.result.value = 0

\* C19, amended: for all vectors v of one dimension with a non-zero
\* magnitude, cosine_similarity(v, v) is 1.0 within floating tolerance; the
\* result is exactly 0.0 whenever an argument has zero magnitude (so for
\* (v, zeroVector) and for (zeroVector, zeroVector)); and on arguments of
\* one dimension the call never divides by zero or raises.
C19_SelfSimilarityWithinTolerance ==
    cosLast.made =>
        /\ ~cosLast.result.raised
        /\ ~cosLast.result.divided_by_zero
        /\ (cosLast.vec1 = cosLast.vec2 /\ ~HasZeroMagnitude(cosLast.vec1)) =>
                Abs(cosLast.result.value - One) <= Tolerance
        /\ (HasZeroMagnitude(cosLast.vec1) \/ HasZeroMagnitude(cosLast.vec2)) =>
                cosLast.result.value = 0

\* C19 witness: a vector whose similarity to itself is rounded off 1.0.
C19_Witness ==
    /\ cosLast.made
    /\ cosLast.vec1 = cosLast.vec2
    /\ ~HasZeroMagnitude(cosLast.vec1)
    /\ cosLast.result.value # One
    /\ Abs(cosLast.result.value - One) <= Tolerance

\* C19 witness: a vector against the zero vector.
C19_ZeroWitness ==
    /\ cosLast.made
    /\ ~HasZeroMagnitude(cosLast.vec1)
    /\ cosLast.vec2 = ZeroVector
    /\ cosLast.result.value = 0

(***************************************************************************)
(* Extraction of context facts, MemoryService.extract_and_save_context and *)
(* OpenAIService.extract_context, and the explicit endpoints of            *)
(* src/app/api/memory.py.                                                  *)
(***************************************************************************)
MaxExtOps == 2

\* A value of the parsed JSON that is not a string: a number, a list, null.
OtherValue == [kind |-> "other", text |-> ""]

ExtValues == {StrValue("casual"), StrValue(""), OtherValue}

\* The keys of a JSON object in the order they are written.
KeyOrder == <<"writing_style", "industry">>

\* The items of a mapping, in the order of the keys.
ItemsOf(f) ==
    (IF KeyOrder[1] \in DOMAIN f THEN <<[key |-> KeyOrder[1], value |-> f[KeyOrder[1]]]>> ELSE <<>>)
    \o (IF KeyOrder[2] \in DOMAIN f THEN <<[key |-> KeyOrder[2], value |-> f[KeyOrder[2]]]>> ELSE <<>>)

\* What the extraction capability does: the request raises, the text is not
\* JSON, the text is JSON but not an object, the text is a JSON object.
ExtractionOutputs ==
    {[kind |-> k, items |-> <<>>] : k \in {"error", "unparsable", "not_mapping"}}
    \cup {[kind |-> "mapping", items |-> ItemsOf(f)] :
            f \in UNION {[K -> ExtValues] : K \in SUBSET CtxKeys}}

\* extract_context: {} when the request raises or json.loads raises
\* JSONDecodeError, else whatever json.loads returns.
extract_context(output) ==
    CASE output.kind \in {"error", "unparsable"} -> [mapping |-> TRUE, items |-> <<>>]
      [] output.kind = "not_mapping" -> [mapping |-> FALSE, items |-> <<>>]
      [] OTHER -> [mapping |-> TRUE, items |-> output.items]

\* extract_and_save_context(user_id, conversation_id, ...): extracted.items()
\* raises AttributeError on a value that is not a mapping.
extract_and_save_context(ctxs, user_id, conversation_id, output) ==
    LET extracted == extract_context(output)
    IN  IF ~extracted.mapping
        THEN [raised |-> TRUE, returned |-> {}, contexts |-> ctxs]
        ELSE [raised |-> FALSE, returned |-> SavedContexts(extracted.items),
              contexts |-> SaveExtracted(ctxs, user_id, conversation_id, extracted.items)]

\* PUT /memory/context/{key}
update_context(ctxs, user_id, key, value) ==
    [rejected |-> FALSE,
     contexts |-> update_or_create_context(ctxs, user_id, key, value, NoConv, ConfExplicit)]

\* POST /memory/context: 400 when the key exists and override is not set.
create_context(ctxs, user_id, key, value, override) ==
    IF get_context_by_key(ctxs, user_id, key) # 0 /\ ~override
    THEN [rejected |-> TRUE, contexts |-> ctxs]
    ELSE [rejected |-> FALSE,
          contexts |-> update_or_create_context(ctxs, user_id, key, value, NoConv, ConfExplicit)]

NoExt == [op |-> "", user_id |-> 0, key |-> "", value |-> "", conversation_id |-> NoConv,
          output |-> [kind |-> "", items |-> <<>>], raised |-> FALSE, rejected |-> FALSE,
          returned |-> {}, before |-> <<>>]

InitExt ==
    /\ extLast = NoExt
    /\ extOps = 0

\* One whole request to PUT /memory/context/{key}.
UpdateContext(u, k, v) ==
    LET r == update_context(contexts, u, k, v)
    IN  /\ extOps < MaxExtOps
        /\ extLast.op # "extract"
        /\ extOps' = extOps + 1
        /\ contexts' = r.contexts
        /\ extLast' = [NoExt EXCEPT !.op = "update", !.user_id = u, !.key = k,
                                    !.value = v, !.before = contexts]
        /\ UNCHANGED notExt

\* One whole request to POST /memory/context.
CreateContext(u, k, v, override) ==
    LET r == create_context(contexts, u, k, v, override)
    IN  /\ extOps < MaxExtOps
        /\ extLast.op # "extract"
        /\ extOps' = extOps + 1
        /\ contexts' = r.contexts
        /\ extLast' = [NoExt EXCEPT !.op = "create", !.user_id = u, !.key = k,
                                    !.value = v, !.rejected = r.rejected,
                                    !.before = contexts]
        /\ UNCHANGED notExt

\* One whole call of extract_and_save_context, the last operation.
ExtractAndSaveContext(u, cid, output) ==
    LET r == extract_and_save_context(contexts, u, cid, output)
    IN  /\ extLast.op # "extract"
        /\ contexts' = r.contexts
        /\ extLast' = [NoExt EXCEPT !.op = "extract", !.user_id = u,
                                    !.conversation_id = cid, !.output = output,
                                    !.raised = r.raised, !.returned = r.returned,
                                    !.before = contexts]
        /\ UNCHANGED <<extOps, notExt>>

NextExt ==
    \/ \E u \in UserIds, k \in CtxKeys, v \in CtxValues : UpdateContext(u, k, v)
    \/ \E u \in UserIds, k \in CtxKeys, v \in CtxValues, override \in BOOLEAN :
            CreateContext(u, k, v, override)
    \/ \E u \in UserIds, cid \in ConvIds, output \in ExtractionOutputs :
            ExtractAndSaveContext(u, cid, output)

----------------------------------------------------------------------------
(***************************************************************************)
(* Claims about extraction and the explicit endpoints.                     *)
(***************************************************************************)
\* C16: extract_and_save_context never raises: when the extraction request
\* raises, when its output is not JSON, and when its output is JSON but not
\* a mapping, the call returns the empty mapping and the context facts are
\* as they were.
C16_ExtractionNeverRaises ==
    (extLast.op = "extract" /\ extLast.output.kind \in {"error", "unparsable", "not_mapping"}) =>
        /\ ~extLast.raised
        /\ extLast.returned = {}
        /\ contexts = extLast.before

\* The candidates of the last extraction whose value is a non-empty string.
Candidates ==
    {extLast.output.items[i] : i \in {j \in 1 .. Len(extLast.output.items) :
        /\ extLast.output.items[j].value.kind = "str"
        /\ extLast.output.items[j].value.text # ""}}

\* The rows of a user and key, as records.
FactsOf(ctxs, u, k) == {ctxs[i] : i \in RowsOf(ctxs, u, k)}

\* C17: after extract_and_save_context on a mapping, each candidate whose
\* value is a non-empty string is the one fact of its key, with that value,
\* confidence 0.7 and the conversation as provenance; the call returns
\* exactly these keys and values; the facts of every other key and of every
\* other user are as before.  After a request to the update or the create
\* endpoint that was not rejected, the fact is stored with confidence 1.0.
C17_ExtractionPersistsStrings ==
    /\ (extLast.op = "extract" /\ ~extLast.raised) =>
        /\ \A c \in Candidates :
              FactsOf(contexts, extLast.user_id, c.key) =
                {[user_id |-> extLast.user_id, key |-> c.key, value |-> c.value.text,
                  learned_from_conversation_id |-> extLast.conversation_id,
                  confidence_score |-> ConfInferred, usage_count |-> 0, last_used |-> 0]}
        /\ extLast.returned = {[key |-> c.key, value |-> c.value.text] : c \in Candidates}
        /\ \A u \in UserIds, k \in CtxKeys :
              (u # extLast.user_id \/ k \notin {c.key : c \in Candidates}) =>
                  FactsOf(contexts, u, k) = FactsOf(extLast.before, u, k)
        /\ ConfInferred = 7
    /\ (extLast.op \in {"update", "create"} /\ ~extLast.rejected) =>
        /\ FactsOf(contexts, extLast.user_id, extLast.key) =
                {[user_id |-> extLast.user_id, key |-> extLast.key, value |-> extLast.value,
                  learned_from_conversation_id |-> NoConv,
                  confidence_score |-> ConfExplicit, usage_count |-> 0, last_used |-> 0]}
        /\ ConfExplicit = 10
    /\ (extLast.op = "create" /\ extLast.rejected) => contexts = extLast.before

\* An extraction with a string candidate that replaced an explicit fact of
\* its key, and a candidate that was left out, with a fact of another user
\* in the table.
C17_Witness ==
    /\ extLast.op = "extract" /\ ~extLast.raised
    /\ Cardinality(Candidates) = 1
    /\ Len(extLast.output.items) = 2
    /\ \E c \in Candidates : FactsOf(extLast.before, extLast.user_id, c.key) # {}
    /\ \E i \in 1 .. Len(contexts) : contexts[i].user_id # extLast.user_id

\* An explicit request stored its fact over an earlier one.
C17_ExplicitWitness ==
    /\ extLast.op \in {"update", "create"} /\ ~extLast.rejected
    /\ FactsOf(extLast.before, extLast.user_id, extLast.key) # {}


----------------------------------------------------------------------------
(***************************************************************************)
(* search_similar_messages, src/app/services/embedding_service.py.         *)
(***************************************************************************)
\* What generate_embedding answers for the query: it raises, or a vector,
\* of the stored dimension or (after a change of embedding model) another.
QueryOutcomes ==
    {[kind |-> "error", vector |-> <<>>]}
    \cup {[kind |-> "ok", vector |-> v] : v \in {<<1, 0>>, <<1, 1>>, <<1, 0, 0>>}}

\* The limits a caller may pass: a limit is a count of entries.
Limits == 0 .. MaxLimit

\* float(0.7), the default min_similarity.
DefaultMinSimilarity == RoundRatio(7 * One, 10)

\* The thresholds a caller may pass: the default, and -1.0.
MinSimilarities == {DefaultMinSimilarity, 0 - One}

\* The owner of a message, through its conversation; 0 when there is none.
OwnerOf(db, message_id) ==
    LET C == {c \in 1 .. Len(db.conversations) :
                \E m \in 1 .. Len(db.messages) :
                    /\ db.messages[m].id = message_id
                    /\ db.messages[m].conversation_id = db.conversations[c].id}
    IN  IF C = {} THEN 0 ELSE db.conversations[Min(C)].user_id

\* The query of search_similar_messages: the embedding rows joined with
\* their message and its conversation, of conversations of the user; by
\* their place in the table.
RECURSIVE UserEmbeddingsFrom(_, _, _)
UserEmbeddingsFrom(db, user_id, i) ==
    IF i > Len(db.embeddings) THEN <<>>
    ELSE (IF OwnerOf(db, db.embeddings[i].message_id) = user_id
          THEN <<db.embeddings[i]>> ELSE <<>>)
         \o UserEmbeddingsFrom(db, user_id, i + 1)

\* Mutant: the rows of every user.
AllEmbeddings(db, user_id) == db.embeddings

UserEmbeddings(db, user_id) == UserEmbeddingsFrom(db, user_id, 1)

\* The loop over the rows: the entries at or above min_similarity, or that
\* cosine_similarity raised.
RECURSIVE ScoreAll(_, _, _, _)
ScoreAll(rows, query_embedding, min_similarity, results) ==
    IF rows = <<>> THEN [raised |-> FALSE, results |-> results]
    ELSE LET similarity == cosine_similarity(query_embedding, JsonLoads(Head(rows).embedding))
         IN  IF similarity.raised THEN [raised |-> TRUE, results |-> <<>>]
             ELSE ScoreAll(Tail(rows), query_embedding, min_similarity,
                    IF similarity.value >= min_similarity
                    THEN Append(results, [message_id |-> Head(rows).message_id,
                                          score |-> similarity.value])
                    ELSE results)

\* Mutant: the results are returned as the loop found them.
Unsorted(results) == results

\* results.sort(key=score, reverse=True): a stable sort, so entries of one
\* score keep their order.
RECURSIVE InsertByScore(_, _)
InsertByScore(sorted, x) ==
    IF sorted = <<>> THEN <<x>>
    ELSE IF Head(sorted).score >= x.score
         THEN <<Head(sorted)>> \o InsertByScore(Tail(sorted), x)
         ELSE <<x>> \o sorted

RECURSIVE SortByScore(_)
SortByScore(results) ==
    IF results = <<>> THEN <<>>
    ELSE InsertByScore(SortByScore(SubSeq(results, 1, Len(results) - 1)),
                       results[Len(results)])

\* results[:limit], a Python slice: a negative limit counts from the end.
SliceTo(results, limit) ==
    IF limit >= 0
    THEN SubSeq(results, 1, IF limit <= Len(results) THEN limit ELSE Len(results))
    ELSE SubSeq(results, 1, Max(Len(results) + limit, 0))

\* search_similar_messages(query, user_id, limit, min_similarity): every
\* exception ends in return [].
search_similar_messages(db, query, user_id, limit, min_similarity) ==
    IF query.kind # "ok" THEN <<>>
    ELSE LET scored == ScoreAll(UserEmbeddings(db, user_id), query.vector,
                                min_similarity, <<>>)
         IN  IF scored.raised THEN <<>>
             ELSE SliceTo(SortByScore(scored.results), limit)

NoSearch == [made |-> FALSE, at |-> <<0, 0>>, user_id |-> 0,
             query |-> [kind |-> "", vector |-> <<>>], limit |-> 0,
             min_similarity |-> 0, results |-> <<>>]

InitSearch == searchLast = NoSearch

\* One whole call of search_similar_messages.
SearchSimilarMessages(u, query, limit, min_similarity) ==
    /\ ~searchLast.made
    /\ searchLast' = [made |-> TRUE, at |-> <<chatOps, embOps>>, user_id |-> u,
                      query |-> query, limit |-> limit,
                      min_similarity |-> min_similarity,
                      results |-> search_similar_messages(DB, query, u, limit,
                                                          min_similarity)]
    /\ UNCHANGED notSearch

\* Chats that answer (each in a new conversation, its reply embedded) fill
\* the tables; then one search reads them.
NextSearch ==
    \/ \E u \in UserIds, v \in EmbVectors :
            /\ ~searchLast.made
            /\ ChatWithMemory(u, NoConv, FALSE, [ok |-> TRUE, tokens |-> 250],
                              [kind |-> "ok", vector |-> v], <<>>)
    \/ \E u \in UserIds, query \in QueryOutcomes, limit \in Limits,
          min_similarity \in MinSimilarities :
            SearchSimilarMessages(u, query, limit, min_similarity)

(***************************************************************************)
(* Claims about search_similar_messages.                                   *)
(***************************************************************************)
\* The last operation was a search.
SearchIsLast == searchLast.made /\ searchLast.at = <<chatOps, embOps>>

\* The embedding rows of the searching user's messages.
SearchedRows ==
    {i \in 1 .. Len(embeddings) :
        OwnerOf(DB, embeddings[i].message_id) = searchLast.user_id}

\* The score of a row against the query of the last search.
ScoreOf(i) == cosine_similarity(searchLast.query.vector, JsonLoads(embeddings[i].embedding))

Returned == {searchLast.results[j].message_id : j \in 1 .. Len(searchLast.results)}

\* What C11 says of every search but the number of entries: every entry is
\* at or above min_similarity, the scores do not increase, and no row of
\* the user left out scores strictly higher than a returned one.
SearchOrdered ==
    /\ \A j \in 1 .. Len(searchLast.results) :
            /\ searchLast.results[j].score >= searchLast.min_similarity
            /\ \E i \in SearchedRows :
                    /\ embeddings[i].message_id = searchLast.results[j].message_id
                    /\ ~ScoreOf(i).raised
                    /\ ScoreOf(i).value = searchLast.results[j].score
    /\ \A j, k \in 1 .. Len(searchLast.results) :
            j < k => searchLast.results[j].score >= searchLast.results[k].score
    /\ \A i \in SearchedRows :
            (embeddings[i].message_id \notin Returned /\ ~ScoreOf(i).raised) =>
                \A j \in 1 .. Len(searchLast.results) :
                    ScoreOf(i).value <= searchLast.results[j].score

C20_MismatchRejected ==
    SearchIsLast =>
        /\ \A i \in SearchedRows :
                Len(JsonLoads(embeddings[i].embedding)) # Len(searchLast.query.vector)
                    => embeddings[i].message_id \notin Returned
        /\ (\E i \in SearchedRows :
                Len(JsonLoads(embeddings[i].embedding)) # Len(searchLast.query.vector))
                    => searchLast.results = <<>>

\* C20 witness: a search whose query vector has another dimension than the
\* two embeddings the user has, with a threshold every score would pass.
C20_Witness ==
    /\ SearchIsLast
    /\ searchLast.query.kind = "ok"
    /\ searchLast.limit = 2
    /\ searchLast.min_similarity = 0 - One
    /\ Cardinality(SearchedRows) = 2
    /\ \A i \in SearchedRows :
            Len(JsonLoads(embeddings[i].embedding)) # Len(searchLast.query.vector)
    /\ searchLast.results = <<>>

\* The message of an embedding row is in a conversation of the user.
RowIsOf(e, u) ==
    \E m \in 1 .. Len(messages) :
        /\ messages[m].id = e.message_id
        /\ Owns(u, messages[m].conversation_id)

RowIsOfSearcher(e) == RowIsOf(e, searchLast.user_id)

\* The database without the embeddings of other users than the searcher.
WithoutOthers == [DB EXCEPT !.embeddings = SelectSeq(embeddings, RowIsOfSearcher)]

\* C26: every message a search returns belongs to a conversation owned by
\* the searching user, and the result is the one the search gives when the
\* embeddings of the other users are taken away.
C26_OnlyOwnMessages ==
    SearchIsLast =>
        /\ \A j \in 1 .. Len(searchLast.results) :
                RowIsOf([message_id |-> searchLast.results[j].message_id], searchLast.user_id)
        /\ searchLast.results =
                search_similar_messages(WithoutOthers, searchLast.query, searchLast.user_id,
                                        searchLast.limit, searchLast.min_similarity)

\* A search that returned a message of the user while another user holds
\* an embedding that scores at least as high.
C26_Witness ==
    /\ SearchIsLast
    /\ Len(searchLast.results) = 1
    /\ searchLast.limit = 2
    /\ \E i \in 1 .. Len(embeddings) :
            /\ ~RowIsOf(embeddings[i], searchLast.user_id)
            /\ ~ScoreOf(i).raised
            /\ ScoreOf(i).value >= searchLast.results[1].score

----------------------------------------------------------------------------
(***************************************************************************)
(* The specifications.                                                     *)
(***************************************************************************)
\* The state after construction: no counter, no row.
Init == InitRL /\ InitMem /\ InitChat /\ InitApi /\ InitCos /\ InitPrompt /\ InitSearch /\ InitExt /\ InitGen

\* Sequential calls of check_user_rate_limits, the backend failing at will.
SpecRL == Init /\ [][NextRL]_vars

\* Sequential calls of check_user_rate_limits, the backend working.
SpecRLUp == Init /\ [][NextRLUp]_vars

\* Concurrent calls of check_rate_limit.
SpecRLConc == Init /\ [][NextRLConc]_vars

\* Sequential calls on the context store.
SpecMem == Init /\ [][NextMem]_vars

\* Concurrent upserts on the context store.
SpecMemConc == Init /\ [][NextMemConc]_vars

\* Sequential calls on the context store, uses of a fact among them.
SpecMemUse == Init /\ [][NextMemUse]_vars

\* Deletions among concurrent upserts on the context store.
SpecMemDel == Init /\ [][NextMemDel]_vars

\* Sequential calls of chat_with_memory and of the embedding store.
SpecChat == Init /\ [][NextChat]_vars

\* A long run of chats of one user.
SpecHistory == Init /\ [][NextHistory]_vars

\* Concurrent HTTP requests to the entry points that invoke the model.
SpecApi == Init /\ [][NextApi]_vars

\* The same with deletions of conversations.
SpecApiDelete == Init /\ [][NextApiDelete]_vars

\* Searches over the embeddings that chats and direct calls store.
SpecSearch == Init /\ [][NextSearch]_vars

\* build_personalized_prompt on every content type and snapshot.
SpecPrompt == Init /\ [][NextPrompt]_vars

\* cosine_similarity on every pair of vectors.
SpecCos == Init /\ [][NextCos]_vars

\* Extraction after explicit context requests.
SpecExt == Init /\ [][NextExt]_vars

\* One call of generate_content.
SpecGen == Init /\ [][NextGen]_vars

=============================================================================
